---- MODULE Spec2Model ----
(***************************************************************************)
(* EcoSnap home page (src/EcoSnap-v4/src/app/dashboard/page.tsx, second    *)
(* half: HomePage): the profile reconciliation run by checkLoginStatus and *)
(* the classification flow of handleClassify, over the browser's local     *)
(* storage and React's state hooks.                                        *)
(*                                                                         *)
(* React state is modelled as the committed value of each hook plus the    *)
(* updates queued on it: an update made from an event listener or after an *)
(* await is applied by the next render (action Render), an update made in  *)
(* a click handler is flushed at the end of the click.                     *)
(***************************************************************************)
EXTENDS Integers, Sequences, FiniteSets, TLC

VARIABLES
    ls,                     \* localStorage: isLoggedIn, userEmail, userName, userData, history
    userData,               \* useState<UserProfile>            (line 1354)
    recentClassifications,  \* useState<ClassificationRecord[]> (line 1355)
    isClassifying,          \* useState(false)                  (line 1356)
    classificationError,    \* useState<string | null>          (line 1357)
    isLoggedIn,             \* useState(false)                  (line 1363)
    pend,                   \* state updates queued for the next render
    inFlight,               \* the classifyWaste calls awaited: [imageDataUri, hint] each
    now,                    \* Date.now()
    mounted,                \* the mount effect (line 1372) has run
    isUploadModalOpen,      \* useState(false)                  (line 1358)
    currentUploadCategory,  \* useState(undefined)              (line 1360)
    otherTab,               \* a second tab of the same browser: its state hooks
    bin1,                   \* the Bin-1 state hooks of DetailedDashboardPage (lines 112-114)
    listeners,              \* the listeners of window: <<event type, function>> each
    dashboard,              \* DetailedDashboardPage: its intervals and the hooks they set
    leaderboard,            \* LeaderboardPage: the users collection and the state hooks
    lastOp,                 \* the last operation and what it returned
    env                     \* what the environment may still do in this run

vars == <<ls, userData, recentClassifications, isClassifying, classificationError,
          isLoggedIn, pend, inFlight, now, mounted, isUploadModalOpen,
          currentUploadCategory, otherTab, bin1, listeners, dashboard, leaderboard,
          lastOp, env>>

(***************************************************************************)
(* Bounds of the model.                                                    *)
(***************************************************************************)
MaxAttempts == 2          \* classification attempts of a run over the classifier's answers
MaxCategoryChecks == 1    \* storage / authChange events delivered in such a run
MaxIdentityAttempts == 1  \* classification attempts of a run in which the login keys change
MaxAuthWrites == 2        \* writes of the login keys by the login page or another tab
MaxChecks == 2            \* storage / authChange events delivered in such a run
MaxOverflow == 2          \* classifications beyond the history capacity in a long run
MaxDialogAttempts == 2    \* classification attempts of a run in which the dialog is closed
MaxCloses == 2            \* times the user closes the dialog in such a run
MaxTabAttempts == 1       \* classification attempts of each tab in a run of two tabs
MaxTabChecks == 1         \* storage events each tab processes in such a run
MaxHistoryLen == 2        \* entries of fill_level_history in a snapshot of /bin1
MaxSnapshots == 3         \* snapshots of /bin1 delivered, plus one
MaxUsers == 11            \* documents in the users collection
MaxSeconds == 7           \* seconds the dashboard view is followed for
MaxScore == 3100          \* the highest score the level card is rendered with
MaxNegativeScore == 20    \* ... and how far below zero the lowest one is

(***************************************************************************)
(* Constants of the program.                                               *)
(***************************************************************************)
null == "<null>"                       \* localStorage.getItem on a missing key; useState(null)
MAX_HISTORY_DISPLAY_ITEMS == 5
MAX_REAL_TIME_EWASTE_POINTS == 20
REAL_TIME_EWASTE_UPDATE_INTERVAL == 3  \* 3000 ms, in seconds
CLOCK_UPDATE_INTERVAL == 1             \* 1000 ms, in seconds
LEADERBOARD_LIMIT == 10                \* limit(10)
HISTORY_CAPACITY == 50                 \* .slice(0, 50)
CO2_SAVED_PER_POINT == 10              \* 0.1 kg per point, in hundredths of a kg

WASTE_POINTS ==
    [ewaste |-> 100, plastic |-> 50, biowaste |-> 60, cardboard |-> 80, paper |-> 70,
     glass |-> 30, metal |-> 40, organic |-> 60, other |-> 10, plasticOther |-> 20,
     plasticPete |-> 55, plasticHdpe |-> 55, plasticPp |-> 45, plasticPs |-> 15,
     recyclable |-> 50, compostable |-> 60]
    @@ ("non-recyclable" :> 10)

\* The WasteCategory enumeration: the keys of Record<WasteCategory, number>.
WasteCategory == DOMAIN WASTE_POINTS

\* id and quantityKey of each entry of verticalLogCategories, in its order.
verticalLogCategories ==
    << [id |-> "cardboard",    quantityKey |-> "totalCardboard"],
       [id |-> "paper",        quantityKey |-> "totalPaper"],
       [id |-> "glass",        quantityKey |-> "totalGlass"],
       [id |-> "plasticPete",  quantityKey |-> "totalPlasticPete"],
       [id |-> "plasticHdpe",  quantityKey |-> "totalPlasticHdpe"],
       [id |-> "plasticPp",    quantityKey |-> "totalPlasticPp"],
       [id |-> "plasticPs",    quantityKey |-> "totalPlasticPs"],
       [id |-> "plasticOther", quantityKey |-> "totalPlasticOther"],
       [id |-> "ewaste",       quantityKey |-> "totalEwaste"],
       [id |-> "biowaste",     quantityKey |-> "totalBiowaste"],
       [id |-> "metal",        quantityKey |-> "totalMetal"],
       [id |-> "other",        quantityKey |-> "totalOther"] >>

\* The fourteen per-category counters of UserProfile.
CounterKeys ==
    {"totalEwaste", "totalPlastic", "totalBiowaste", "totalCardboard", "totalPaper",
     "totalGlass", "totalMetal", "totalOrganic", "totalOther", "totalPlasticOther",
     "totalPlasticPete", "totalPlasticHdpe", "totalPlasticPp", "totalPlasticPs"}

\* co2Managed is kept in tenths of a kg (one decimal).
defaultUserProfile ==
    [id |-> "localUser", displayName |-> "Guest", email |-> "", avatar |-> "G",
     score |-> 0, co2Managed |-> 0,
     totalEwaste |-> 0, totalPlastic |-> 0, totalBiowaste |-> 0, totalCardboard |-> 0,
     totalPaper |-> 0, totalGlass |-> 0, totalMetal |-> 0, totalOrganic |-> 0,
     totalOther |-> 0, totalPlasticOther |-> 0, totalPlasticPete |-> 0,
     totalPlasticHdpe |-> 0, totalPlasticPp |-> 0, totalPlasticPs |-> 0,
     itemsClassified |-> 0, challengesCompleted |-> 0, badges |-> {}]

(***************************************************************************)
(* The inputs of the model.                                                *)
(***************************************************************************)
Emails == {"ann@x.org", "bob@x.org"}
UserNames == {"Ann"}
Hints == {"general", "glass"}              \* the category the dialog was opened from
Images == {"data:image/png;base64,AA"}
Confidences == {9}                         \* confidence, in tenths

\* What the classifier can answer: the enumeration, and a label outside of it.
UnknownCategory == "battery"
AllResponses ==
    << "ewaste", "plastic", "biowaste", "cardboard", "paper", "glass", "metal", "organic",
       "other", "plasticOther", "plasticPete", "plasticHdpe", "plasticPp", "plasticPs",
       "recyclable", "compostable", "non-recyclable", UnknownCategory >>

InvalidResultMessage ==
    "Could not classify the image. The AI returned no result or an invalid category."
UnknownErrorMessage == "An unknown error occurred during classification."
ThrownMessages == {"Failed to fetch"}

(***************************************************************************)
(* JavaScript helpers.                                                     *)
(***************************************************************************)
\* Truthiness of a string-or-null: null and "" are falsy.
Truthy(v) == v # null /\ v # ""

\* userEmail.split('@')[0]
LocalPart(email) ==
    CASE email = "ann@x.org" -> "ann"
      [] email = "bob@x.org" -> "bob"
      [] OTHER -> email

\* displayName.substring(0,2).toUpperCase(), the text of the avatar URL
AvatarText(displayName) ==
    CASE displayName = "Ann" -> "AN"
      [] displayName = "ann" -> "AN"
      [] displayName = "bob" -> "BO"
      [] displayName = "User" -> "US"
      [] displayName = "Guest" -> "GU"
      [] OTHER -> displayName

\* seq without its i-th element
Remove(seq, i) == SubSeq(seq, 1, i - 1) \o SubSeq(seq, i + 1, Len(seq))

\* seq.slice(0, n)
Slice(seq, n) == SubSeq(seq, 1, IF Len(seq) < n THEN Len(seq) ELSE n)

\* parseFloat(x.toFixed(1)): x in hundredths, the result in tenths (half rounds up).
ToFixed1(hundredths) == (hundredths + 5) \div 10

(***************************************************************************)
(* @/lib/storage.                                                          *)
(***************************************************************************)
\* getFromLocalStorage(USER_DATA_KEY, fallback): the stored profile, or the
\* fallback when nothing is stored.  <<>> stands for the fallback {}.
getFromLocalStorage_userData(fallback) ==
    IF ls.userData = <<>> THEN fallback ELSE ls.userData[1]

\* getFromLocalStorage(HISTORY_STORAGE_KEY, [])
getFromLocalStorage_history == ls.history

\* saveToLocalStorage(key, value) on storage s: the value is stored, unless the
\* write fails (quota), which is swallowed and leaves the storage as it was.
saveToLocalStorage(s, key, value, ok) ==
    IF ok THEN [s EXCEPT ![key] = value] ELSE s

(***************************************************************************)
(* Scoring (handleClassify, lines 1497 and 1513-1542).                     *)
(***************************************************************************)
\* A variant without the fallback: a category outside the table earns nothing.
pointsEarned_NoFallback(category) ==
    IF category \in DOMAIN WASTE_POINTS THEN WASTE_POINTS[category] ELSE 0

\* WASTE_POINTS[category] || WASTE_POINTS.other
pointsEarned(category) ==
    IF category \in DOMAIN WASTE_POINTS /\ WASTE_POINTS[category] # 0
    THEN WASTE_POINTS[category]
    ELSE WASTE_POINTS["other"]

\* verticalLogCategories.find(cat => cat.id === category): <<entry>> or <<>>
categoryDetails(category) ==
    LET hits == {i \in 1..Len(verticalLogCategories) :
                    verticalLogCategories[i].id = category}
    IN  IF hits = {} THEN <<>>
        ELSE <<verticalLogCategories[CHOOSE i \in hits : \A j \in hits : i <= j]>>

\* A variant that counts a category without a counter of its own as "other".
newUserDataState_CountsUnmappedAsOther(prevData, category, points) ==
    LET base == [prevData EXCEPT
                    !.score = @ + points,
                    !.co2Managed = ToFixed1(@ * 10 + points * CO2_SAVED_PER_POINT),
                    !.itemsClassified = @ + 1]
        details == categoryDetails(category)
    IN  [base EXCEPT ![IF details # <<>> THEN details[1].quantityKey ELSE "totalOther"] = @ + 1]

\* A variant that counts an item of a plastic sub-category under totalPlastic
\* as well.
newUserDataState_CountsPlasticTwice(prevData, category, points) ==
    LET base == [prevData EXCEPT
                    !.score = @ + points,
                    !.co2Managed = ToFixed1(@ * 10 + points * CO2_SAVED_PER_POINT),
                    !.itemsClassified = @ + 1]
        details == categoryDetails(category)
        counted == IF details # <<>>
                   THEN [base EXCEPT ![details[1].quantityKey] = @ + 1]
                   ELSE base
    IN  IF category \in {"plasticOther", "plasticPete", "plasticHdpe", "plasticPp", "plasticPs"}
        THEN [counted EXCEPT !.totalPlastic = @ + 1]
        ELSE counted

\* A variant that rounds the CO2 figure to whole kilograms (Math.round).
newUserDataState_RoundsToWholeKg(prevData, category, points) ==
    LET base == [prevData EXCEPT
                    !.score = @ + points,
                    !.co2Managed =
                        ((@ * 10 + points * CO2_SAVED_PER_POINT + 50) \div 100) * 10,
                    !.itemsClassified = @ + 1]
        details == categoryDetails(category)
    IN  IF details # <<>>
        THEN [base EXCEPT ![details[1].quantityKey] = @ + 1]
        ELSE base

\* The updater passed to setUserData: prevData => newUserDataState.
newUserDataState(prevData, category, points) ==
    LET base == [prevData EXCEPT
                    !.score = @ + points,
                    !.co2Managed = ToFixed1(@ * 10 + points * CO2_SAVED_PER_POINT),
                    !.itemsClassified = @ + 1]
        details == categoryDetails(category)
    IN  IF details # <<>>
        THEN [base EXCEPT ![details[1].quantityKey] = @ + 1]
        ELSE base

\* The ClassificationRecord built at lines 1499-1506.
newRecord(imageDataUri, category, confidence) ==
    [id |-> now, imageDataUri |-> imageDataUri, category |-> category,
     confidence |-> confidence, timestamp |-> now, points |-> pointsEarned(category)]

\* A variant that makes room by dropping the newest of the stored records.
updatedHistory_EvictsNewest(record, currentHistory) ==
    IF Len(currentHistory) >= HISTORY_CAPACITY
    THEN <<record>> \o Tail(currentHistory)
    ELSE <<record>> \o currentHistory

\* A variant that cuts the list one record too late.
updatedHistory_OffByOne(record, currentHistory) ==
    Slice(<<record>> \o currentHistory, HISTORY_CAPACITY + 1)

\* [newRecord, ...currentHistory].slice(0, 50)
updatedHistory(record, currentHistory) ==
    Slice(<<record>> \o currentHistory, HISTORY_CAPACITY)

(***************************************************************************)
(* Profile reconciliation (checkLoginStatus, lines 1373-1438).             *)
(***************************************************************************)
\* The condition of line 1385.
needsSync(stored, userEmail, userName) ==
    \/ stored.id = "localUser"
    \/ (Truthy(userEmail) /\ stored.email # userEmail)
    \/ (Truthy(userName) /\ stored.displayName # userName)

\* A variant that never carries the stored statistics over.
reinitialised_NeverKeeps(stored, userEmail, userName) ==
    LET displayName == IF Truthy(userName) THEN userName
                       ELSE IF Truthy(userEmail) THEN LocalPart(userEmail) ELSE "User"
    IN  [defaultUserProfile EXCEPT
            !.id = IF Truthy(userEmail) THEN userEmail ELSE "firebaseUser",
            !.displayName = displayName,
            !.email = IF Truthy(userEmail) THEN userEmail ELSE "",
            !.avatar = AvatarText(displayName)]

\* The profile built at lines 1386-1414.
reinitialised(stored, userEmail, userName) ==
    LET displayName == IF Truthy(userName) THEN userName
                       ELSE IF Truthy(userEmail) THEN LocalPart(userEmail) ELSE "User"
        keep == Truthy(userEmail) /\ stored.email = userEmail
        kept(field) == IF keep THEN stored[field] ELSE 0
    IN  [id |-> IF Truthy(userEmail) THEN userEmail ELSE "firebaseUser",
         displayName |-> displayName,
         email |-> IF Truthy(userEmail) THEN userEmail ELSE "",
         avatar |-> AvatarText(displayName),
         score |-> kept("score"), co2Managed |-> kept("co2Managed"),
         itemsClassified |-> kept("itemsClassified"),
         totalCardboard |-> kept("totalCardboard"), totalPaper |-> kept("totalPaper"),
         totalGlass |-> kept("totalGlass"), totalPlastic |-> kept("totalPlastic"),
         totalOther |-> kept("totalOther"), totalEwaste |-> kept("totalEwaste"),
         totalBiowaste |-> kept("totalBiowaste"), totalMetal |-> kept("totalMetal"),
         totalOrganic |-> kept("totalOrganic"),
         totalPlasticOther |-> kept("totalPlasticOther"),
         totalPlasticPete |-> kept("totalPlasticPete"),
         totalPlasticHdpe |-> kept("totalPlasticHdpe"),
         totalPlasticPp |-> kept("totalPlasticPp"),
         totalPlasticPs |-> kept("totalPlasticPs"),
         challengesCompleted |-> kept("challengesCompleted"),
         badges |-> IF keep THEN stored.badges ELSE {}]

\* storedUserData as it is passed to setUserData (lines 1378-1422).
reconciled(stored, loggedIn, userEmail, userName) ==
    IF loggedIn
    THEN IF needsSync(stored, userEmail, userName)
         THEN reinitialised(stored, userEmail, userName)
         ELSE stored
    ELSE IF stored.id # "localUser" THEN defaultUserProfile ELSE stored

\* history.sort((a,b) => b.timestamp - a.timestamp): a stable sort, newest first.
RECURSIVE InsertByTimestamp(_, _)
InsertByTimestamp(sorted, r) ==
    IF sorted = <<>> THEN <<r>>
    ELSE IF Head(sorted).timestamp >= r.timestamp
         THEN <<Head(sorted)>> \o InsertByTimestamp(Tail(sorted), r)
         ELSE <<r>> \o sorted

RECURSIVE sortedHistory(_)
sortedHistory(history) ==
    IF history = <<>> THEN <<>>
    ELSE InsertByTimestamp(sortedHistory(SubSeq(history, 1, Len(history) - 1)),
                           history[Len(history)])

(***************************************************************************)
(* The Bin-1 card of DetailedDashboardPage: its state hooks (lines 112-114).*)
(***************************************************************************)
Bin1Initial ==
    [bin1HistoryData |-> <<>>, isLoadingBin1History |-> TRUE, bin1HistoryError |-> null]

(***************************************************************************)
(* DetailedDashboardPage before its effects run: no interval, and the      *)
(* hooks of lines 103-104.                                                 *)
(***************************************************************************)
DashboardInitial ==
    [mounted |-> FALSE, intervals |-> {}, currentTime |-> null, realTimeEWasteData |-> <<>>]

(***************************************************************************)
(* LeaderboardPage before its effect runs (lines 42-45); <<>> stands for   *)
(* the null of currentUserStats.                                           *)
(***************************************************************************)
LeaderboardInitial ==
    [users |-> <<>>, awaiting |-> "", leaderboardData |-> <<>>,
     currentUserStats |-> <<>>, isLoading |-> TRUE, error |-> null]

(***************************************************************************)
(* Queued state updates.                                                   *)
(***************************************************************************)
NoUpdates ==
    [isLoggedIn |-> <<>>, userData |-> <<>>, recentClassifications |-> <<>>,
     isClassifying |-> <<>>, classificationError |-> <<>>, isUploadModalOpen |-> <<>>]

\* setUserData(value) and setUserData(prevData => newUserDataState)
SetValue(value) == [kind |-> "set", value |-> <<value>>, category |-> "", points |-> 0]
Updater(category, points) ==
    [kind |-> "update", value |-> <<>>, category |-> category, points |-> points]

\* One queued update of userData applied to the value prev.
applyUpdate(update, prev) ==
    IF update.kind = "set" THEN update.value[1]
    ELSE newUserDataState(prev, update.category, update.points)

\* The value of userData after the first n queued updates, from the value base.
RECURSIVE valueAfter(_, _, _)
valueAfter(updates, n, base) ==
    IF n = 0 THEN base
    ELSE applyUpdate(updates[n], valueAfter(updates, n - 1, base))

\* A variant in which each updater adds its points to the profile it finds in
\* the storage instead of the one in memory.
RECURSIVE storageAfter_OnStored(_, _, _, _, _)
storageAfter_OnStored(updates, n, base, storage, ok) ==
    IF n = 0 THEN storage
    ELSE LET before == storageAfter_OnStored(updates, n - 1, base, storage, ok)
             found == IF before.userData = <<>> THEN base ELSE before.userData[1]
         IN  IF updates[n].kind = "update"
             THEN saveToLocalStorage(before, "userData",
                                     <<newUserDataState(found, updates[n].category,
                                                        updates[n].points)>>, ok)
             ELSE before

\* The storage after the first n queued updates ran: each updater saves its
\* result under USER_DATA_KEY (line 1539).
RECURSIVE storageAfter(_, _, _, _, _)
storageAfter(updates, n, base, storage, ok) ==
    IF n = 0 THEN storage
    ELSE LET before == storageAfter(updates, n - 1, base, storage, ok)
         IN  IF updates[n].kind = "update"
             THEN saveToLocalStorage(before, "userData",
                                     <<valueAfter(updates, n, base)>>, ok)
             ELSE before

\* Whether a write to local storage succeeds: always, unless the quota is exhausted.
WriteOutcomes == IF env.faultyStorage THEN BOOLEAN ELSE {TRUE}

Op(op, ret, arg) == [op |-> op, ret |-> ret, arg |-> arg]

(***************************************************************************)
(* checkLoginStatus (lines 1373-1438).                                     *)
(***************************************************************************)
\* A variant that saves the profile it read instead of the reconciled one.
checkLoginStatus_SavesWhatItRead(ok) ==
    LET loggedIn == ls.isLoggedIn = "true"
        stored == getFromLocalStorage_userData(defaultUserProfile)
        storedUserData == reconciled(stored, loggedIn, ls.userEmail, ls.userName)
        history == getFromLocalStorage_history
    IN  /\ ls' = IF ls.userData # <<storedUserData>>
                 THEN saveToLocalStorage(ls, "userData", <<stored>>, ok)
                 ELSE ls
        /\ pend' = [pend EXCEPT
                        !.isLoggedIn = <<loggedIn>>,
                        !.userData = Append(@, SetValue(storedUserData)),
                        !.recentClassifications =
                            <<Slice(sortedHistory(history), MAX_HISTORY_DISPLAY_ITEMS)>>]
        /\ lastOp' = Op("checkLoginStatus", IF loggedIn THEN "loggedIn" ELSE "guest",
                        <<stored>>)
        /\ UNCHANGED <<userData, recentClassifications, isClassifying,
                       classificationError, isLoggedIn, inFlight, now,
                       isUploadModalOpen, currentUploadCategory, otherTab, bin1,
                       dashboard, leaderboard>>

\* A variant that empties the stored history when it replaces the profile.
checkLoginStatus_ClearsHistoryOnReset(ok) ==
    LET loggedIn == ls.isLoggedIn = "true"
        stored == getFromLocalStorage_userData(defaultUserProfile)
        storedUserData == reconciled(stored, loggedIn, ls.userEmail, ls.userName)
        kept == IF storedUserData = stored THEN ls ELSE [ls EXCEPT !.history = <<>>]
        history == kept.history
    IN  /\ ls' = IF ls.userData # <<storedUserData>>
                 THEN saveToLocalStorage(kept, "userData", <<storedUserData>>, ok)
                 ELSE kept
        /\ pend' = [pend EXCEPT
                        !.isLoggedIn = <<loggedIn>>,
                        !.userData = Append(@, SetValue(storedUserData)),
                        !.recentClassifications =
                            <<Slice(sortedHistory(history), MAX_HISTORY_DISPLAY_ITEMS)>>]
        /\ lastOp' = Op("checkLoginStatus", IF loggedIn THEN "loggedIn" ELSE "guest",
                        <<stored>>)
        /\ UNCHANGED <<userData, recentClassifications, isClassifying,
                       classificationError, isLoggedIn, inFlight, now,
                       isUploadModalOpen, currentUploadCategory, otherTab, bin1,
                       dashboard, leaderboard>>

checkLoginStatus(ok) ==
    LET loggedIn == ls.isLoggedIn = "true"
        stored == getFromLocalStorage_userData(defaultUserProfile)
        storedUserData == reconciled(stored, loggedIn, ls.userEmail, ls.userName)
        history == getFromLocalStorage_history
    IN  /\ ls' = IF ls.userData # <<storedUserData>>
                 THEN saveToLocalStorage(ls, "userData", <<storedUserData>>, ok)
                 ELSE ls
        /\ pend' = [pend EXCEPT
                        !.isLoggedIn = <<loggedIn>>,
                        !.userData = Append(@, SetValue(storedUserData)),
                        !.recentClassifications =
                            <<Slice(sortedHistory(history), MAX_HISTORY_DISPLAY_ITEMS)>>]
        /\ lastOp' = Op("checkLoginStatus", IF loggedIn THEN "loggedIn" ELSE "guest",
                        <<stored>>)
        /\ UNCHANGED <<userData, recentClassifications, isClassifying,
                       classificationError, isLoggedIn, inFlight, now,
                   isUploadModalOpen, currentUploadCategory, otherTab, bin1,
                   dashboard, leaderboard>>

\* window.addEventListener / removeEventListener: a listener is removed only
\* when the same function is passed for the same event type.
addEventListener(registered, type, listener) == registered \cup {<<type, listener>>}
removeEventListener(registered, type, listener) == registered \ {<<type, listener>>}
Listening(type) == \E l \in listeners : l[1] = type

\* The listeners the mount effect adds: for 'storage' the arrow function of
\* line 1443, for 'authChange' checkLoginStatus itself (line 1451).
MountListeners ==
    addEventListener(addEventListener({}, "storage", "(event) => {...}"),
                     "authChange", "checkLoginStatus")

\* The mount effect: the initial check (line 1440), then the listeners.  The
\* view is mounted once in a run.
Mount ==
    /\ ~mounted
    /\ listeners = {}
    /\ mounted' = TRUE
    /\ listeners' = MountListeners
    /\ \E ok \in WriteOutcomes : checkLoginStatus(ok)
    /\ UNCHANGED env

\* The 'storage' listener (lines 1443-1448): a write made by another tab.
StorageKeys == {"ecoSnapUserData", "isLoggedIn", "ecoSnapHistory", "userEmail"}
StorageEvent(key) ==
    /\ Listening("storage")
    /\ env.checks > 0
    /\ env' = [env EXCEPT !.checks = @ - 1]
    /\ IF key \in {"ecoSnapUserData", "isLoggedIn", "ecoSnapHistory"}
       THEN \E ok \in WriteOutcomes : checkLoginStatus(ok)
       ELSE /\ lastOp' = Op("storageEvent", "ignored", <<>>)
            /\ UNCHANGED <<ls, userData, recentClassifications, isClassifying,
                           classificationError, isLoggedIn, pend, inFlight, now,
                   isUploadModalOpen, currentUploadCategory, otherTab, bin1,
                   dashboard, leaderboard>>
    /\ UNCHANGED <<mounted, listeners>>

\* The 'authChange' listener (line 1451).
AuthChangeEvent ==
    /\ Listening("authChange")
    /\ env.checks > 0
    /\ env' = [env EXCEPT !.checks = @ - 1]
    /\ \E ok \in WriteOutcomes : checkLoginStatus(ok)
    /\ UNCHANGED <<mounted, listeners>>

\* The login page, or another tab, logs a user in: the flag and the identity hints.
ExternalLogin(email, name) ==
    /\ env.authWrites > 0
    /\ env' = [env EXCEPT !.authWrites = @ - 1]
    /\ ls' = [ls EXCEPT !.isLoggedIn = "true", !.userEmail = email, !.userName = name]
    /\ ls' # ls
    /\ lastOp' = Op("externalLogin", "", <<>>)
    /\ UNCHANGED <<userData, recentClassifications, isClassifying, classificationError,
                   isLoggedIn, pend, inFlight, now, mounted,
                   isUploadModalOpen, currentUploadCategory, otherTab, bin1,
                   listeners, dashboard, leaderboard>>

\* ... or logs the user out: the flag is removed.
ExternalLogout ==
    /\ env.authWrites > 0
    /\ ls.isLoggedIn = "true"
    /\ env' = [env EXCEPT !.authWrites = @ - 1]
    /\ ls' = [ls EXCEPT !.isLoggedIn = null]
    /\ lastOp' = Op("externalLogout", "", <<>>)
    /\ UNCHANGED <<userData, recentClassifications, isClassifying, classificationError,
                   isLoggedIn, pend, inFlight, now, mounted,
                   isUploadModalOpen, currentUploadCategory, otherTab, bin1,
                   listeners, dashboard, leaderboard>>

(***************************************************************************)
(* The shared upload dialog.                                               *)
(***************************************************************************)
\* A variant that gives up the pending classification when the dialog closes.
DialogOnOpenChange_Cancels(open) ==
    /\ mounted
    /\ ~open
    /\ isUploadModalOpen
    /\ env.closes > 0
    /\ env' = [env EXCEPT !.closes = @ - 1]
    /\ classificationError' = null
    /\ pend' = [pend EXCEPT !.classificationError = <<>>, !.isUploadModalOpen = <<>>]
    /\ currentUploadCategory' = IF ~isClassifying THEN null ELSE currentUploadCategory
    /\ isUploadModalOpen' = open
    /\ inFlight' = <<>>
    /\ lastOp' = Op("Dialog.onOpenChange", "", <<open>>)
    /\ UNCHANGED <<ls, userData, recentClassifications, isClassifying, isLoggedIn,
                   now, mounted, otherTab, bin1,
                   listeners, dashboard, leaderboard>>

\* openUploadModalForCategory (lines 1578-1584), from a click on a tile.
openUploadModalForCategory(categoryId) ==
    /\ mounted
    /\ ~isUploadModalOpen
    /\ classificationError' = null
    /\ currentUploadCategory' = categoryId
    /\ isUploadModalOpen' = TRUE
    /\ pend' = [pend EXCEPT !.classificationError = <<>>, !.isUploadModalOpen = <<>>]
    /\ lastOp' = Op("openUploadModalForCategory", "", <<categoryId>>)
    /\ UNCHANGED <<ls, userData, recentClassifications, isClassifying, isLoggedIn,
                   inFlight, now, mounted, env, otherTab, bin1,
                   listeners, dashboard, leaderboard>>

\* onOpenChange of the shared dialog (lines 1892-1904), when the user closes it.
DialogOnOpenChange(open) ==
    /\ mounted
    /\ ~open
    /\ isUploadModalOpen
    /\ env.closes > 0
    /\ env' = [env EXCEPT !.closes = @ - 1]
    /\ classificationError' = null
    /\ pend' = [pend EXCEPT !.classificationError = <<>>, !.isUploadModalOpen = <<>>]
    /\ currentUploadCategory' = IF ~isClassifying THEN null ELSE currentUploadCategory
    /\ isUploadModalOpen' = open
    /\ lastOp' = Op("Dialog.onOpenChange", "", <<open>>)
    /\ UNCHANGED <<ls, userData, recentClassifications, isClassifying, isLoggedIn,
                   inFlight, now, mounted, otherTab, bin1,
                   listeners, dashboard, leaderboard>>

(***************************************************************************)
(* handleClassify (lines 1460-1567).                                       *)
(***************************************************************************)
\* A variant that forgets setIsClassifying(true) (line 1476).
handleClassify_FlagNotRaised(imageDataUri, categoryUserInitiatedWith) ==
    IF ~isLoggedIn
    THEN /\ lastOp' = Op("handleClassify", "null", <<"AuthRequired">>)
         /\ UNCHANGED <<ls, userData, recentClassifications, isClassifying,
                        classificationError, isLoggedIn, pend, inFlight, now, env,
                   isUploadModalOpen, currentUploadCategory, otherTab, bin1,
                   dashboard, leaderboard>>
    ELSE /\ env.attempts > 0
         /\ env' = [env EXCEPT !.attempts = @ - 1]
         /\ classificationError' = null
         /\ pend' = [pend EXCEPT !.classificationError = <<>>]
         /\ inFlight' = Append(inFlight, [imageDataUri |-> imageDataUri,
                                          hint |-> categoryUserInitiatedWith])
         /\ lastOp' = Op("handleClassify", "pending", <<>>)
         /\ UNCHANGED <<ls, userData, recentClassifications, isClassifying, isLoggedIn, now,
                   isUploadModalOpen, currentUploadCategory, otherTab, bin1,
                   dashboard, leaderboard>>

\* A variant without the login check of line 1462.
handleClassify_NoLoginCheck(imageDataUri, categoryUserInitiatedWith) ==
    /\ env.attempts > 0
    /\ env' = [env EXCEPT !.attempts = @ - 1]
    /\ isClassifying' = TRUE
    /\ classificationError' = null
    /\ pend' = [pend EXCEPT !.isClassifying = <<>>, !.classificationError = <<>>]
    /\ inFlight' = Append(inFlight, [imageDataUri |-> imageDataUri,
                                     hint |-> categoryUserInitiatedWith])
    /\ lastOp' = Op("handleClassify", "pending", <<>>)
    /\ UNCHANGED <<ls, userData, recentClassifications, isLoggedIn, now,
                   isUploadModalOpen, currentUploadCategory, otherTab, bin1,
                   dashboard, leaderboard>>

\* Up to the await of line 1480.  isLoggedIn is the value of the render the
\* handler was created in; the two updates are flushed with the click.
handleClassify(imageDataUri, categoryUserInitiatedWith) ==
    IF ~isLoggedIn
    THEN /\ lastOp' = Op("handleClassify", "null", <<"AuthRequired">>)
         /\ UNCHANGED <<ls, userData, recentClassifications, isClassifying,
                        classificationError, isLoggedIn, pend, inFlight, now, env,
                   isUploadModalOpen, currentUploadCategory, otherTab, bin1,
                   dashboard, leaderboard>>
    ELSE /\ env.attempts > 0
         /\ env' = [env EXCEPT !.attempts = @ - 1]
         /\ isClassifying' = TRUE
         /\ classificationError' = null
         /\ pend' = [pend EXCEPT !.isClassifying = <<>>, !.classificationError = <<>>]
         /\ inFlight' = Append(inFlight, [imageDataUri |-> imageDataUri,
                                          hint |-> categoryUserInitiatedWith])
         /\ lastOp' = Op("handleClassify", "pending", <<>>)
         /\ UNCHANGED <<ls, userData, recentClassifications, isLoggedIn, now,
                   isUploadModalOpen, currentUploadCategory, otherTab, bin1,
                   dashboard, leaderboard>>

\* The ImageUpload component (@/components/image-upload) is given isClassifying
\* and onClassify (lines 1956-1961): a submission made while a classification
\* is pending is rejected.  The component is inside the shared dialog.
ImageUploadSubmit(imageDataUri) ==
    /\ mounted
    /\ isUploadModalOpen
    /\ IF isClassifying
       THEN /\ lastOp' = Op("ImageUpload.submit", "rejected", <<>>)
            /\ UNCHANGED <<ls, userData, recentClassifications, isClassifying,
                           classificationError, isLoggedIn, pend, inFlight, now, env,
                   isUploadModalOpen, currentUploadCategory, otherTab, bin1,
                   dashboard, leaderboard>>
       ELSE handleClassify(imageDataUri, currentUploadCategory)
    /\ UNCHANGED <<mounted, listeners>>

\* A variant without the return of line 1491: the empty category is scored.
ClassifierReturnsNothing_FallsThrough(i) ==
    /\ i \in 1..Len(inFlight)
    /\ env.failures
    /\ inFlight' = Remove(inFlight, i)
    /\ ls' = [ls EXCEPT !.history =
                 updatedHistory(newRecord(inFlight[i].imageDataUri, "", 0), @)]
    /\ pend' = [pend EXCEPT !.classificationError = <<InvalidResultMessage>>,
                            !.userData = Append(@, Updater("", pointsEarned(""))),
                            !.isClassifying = <<FALSE>>]
    /\ lastOp' = Op("handleClassify.resumed", "null", <<[kind |-> "nothing"]>>)
    /\ now' = now + 1
    /\ UNCHANGED <<userData, recentClassifications, isClassifying,
                   classificationError, isLoggedIn, mounted, env,
                   isUploadModalOpen, currentUploadCategory, otherTab, bin1,
                   listeners, dashboard, leaderboard>>

\* classifyWaste returns no result, or a result with no category (lines 1483-1492).
ClassifierReturnsNothing(i) ==
    /\ i \in 1..Len(inFlight)
    /\ env.failures
    /\ inFlight' = Remove(inFlight, i)
    /\ pend' = [pend EXCEPT !.classificationError = <<InvalidResultMessage>>,
                            !.isClassifying = <<FALSE>>]
    /\ lastOp' = Op("handleClassify.resumed", "null", <<[kind |-> "nothing"]>>)
    /\ UNCHANGED <<ls, userData, recentClassifications, isClassifying,
                   classificationError, isLoggedIn, now, mounted, env,
                   isUploadModalOpen, currentUploadCategory, otherTab, bin1,
                   listeners, dashboard, leaderboard>>

\* A variant in which the category the dialog was opened from overrides the
\* classifier's, unless the dialog was opened for a general item.
ClassifierReturns_HintOverrides(i, category, confidence) ==
    /\ i \in 1..Len(inFlight)
    /\ inFlight' = Remove(inFlight, i)
    /\ LET hint == inFlight[i].hint
           scored == IF hint = "general" THEN category ELSE hint
           record == newRecord(inFlight[i].imageDataUri, scored, confidence)
           currentHistory == getFromLocalStorage_history
           history == updatedHistory(record, currentHistory)
       IN  /\ \E ok \in WriteOutcomes :
                 ls' = saveToLocalStorage(ls, "history", history, ok)
           /\ pend' = [pend EXCEPT
                          !.recentClassifications =
                              <<Slice(history, MAX_HISTORY_DISPLAY_ITEMS)>>,
                          !.userData = Append(@, Updater(scored, record.points)),
                          !.isUploadModalOpen = <<FALSE>>,
                          !.isClassifying = <<FALSE>>]
           /\ lastOp' = Op("handleClassify.resumed", "result",
                           <<[kind |-> "result", category |-> category,
                              confidence |-> confidence, hint |-> hint]>>)
    /\ now' = now + 1
    /\ UNCHANGED <<userData, recentClassifications, isClassifying,
                   classificationError, isLoggedIn, mounted, env,
                   isUploadModalOpen, currentUploadCategory, otherTab, bin1,
                   listeners, dashboard, leaderboard>>

\* classifyWaste returns a category (lines 1494-1549, finally at 1562).
ClassifierReturns(i, category, confidence) ==
    /\ i \in 1..Len(inFlight)
    /\ inFlight' = Remove(inFlight, i)
    /\ LET record == newRecord(inFlight[i].imageDataUri, category, confidence)
           currentHistory == getFromLocalStorage_history
           history == updatedHistory(record, currentHistory)
       IN  /\ \E ok \in WriteOutcomes :
                 ls' = saveToLocalStorage(ls, "history", history, ok)
           /\ pend' = [pend EXCEPT
                          !.recentClassifications =
                              <<Slice(history, MAX_HISTORY_DISPLAY_ITEMS)>>,
                          !.userData = Append(@, Updater(category, record.points)),
                          !.isUploadModalOpen = <<FALSE>>,
                          !.isClassifying = <<FALSE>>]
           /\ lastOp' = Op("handleClassify.resumed", "result",
                           <<[kind |-> "result", category |-> category,
                              confidence |-> confidence, hint |-> inFlight[i].hint]>>)
    /\ now' = now + 1
    /\ UNCHANGED <<userData, recentClassifications, isClassifying,
                   classificationError, isLoggedIn, mounted, env,
                   isUploadModalOpen, currentUploadCategory, otherTab, bin1,
                   listeners, dashboard, leaderboard>>

\* error instanceof Error ? error.message : "An unknown error occurred ..." (line 1553)
errorMessage(thrown) == IF thrown.isError THEN thrown.message ELSE UnknownErrorMessage

\* A variant that calls the classifier again when the call fails.
ClassifierThrows_Retries(i, thrown) ==
    /\ i \in 1..Len(inFlight)
    /\ env.failures
    /\ env.attempts > 0
    /\ env' = [env EXCEPT !.attempts = @ - 1]
    /\ inFlight' = inFlight
    /\ lastOp' = Op("handleClassify.resumed", "null",
                    <<[kind |-> "thrown", thrown |-> thrown]>>)
    /\ UNCHANGED <<ls, userData, recentClassifications, isClassifying,
                   classificationError, isLoggedIn, pend, now, mounted,
                   isUploadModalOpen, currentUploadCategory, otherTab, bin1,
                   listeners, dashboard, leaderboard>>

\* A variant that resets isClassifying at the end of the try block and not in a
\* finally clause: a thrown call leaves the flag up.
ClassifierThrows_FlagStaysUp(i, thrown) ==
    /\ i \in 1..Len(inFlight)
    /\ env.failures
    /\ inFlight' = Remove(inFlight, i)
    /\ pend' = [pend EXCEPT !.classificationError = <<errorMessage(thrown)>>]
    /\ lastOp' = Op("handleClassify.resumed", "null",
                    <<[kind |-> "thrown", thrown |-> thrown]>>)
    /\ UNCHANGED <<ls, userData, recentClassifications, isClassifying,
                   classificationError, isLoggedIn, now, mounted, env,
                   isUploadModalOpen, currentUploadCategory, otherTab, bin1,
                   listeners, dashboard, leaderboard>>

\* classifyWaste throws (lines 1551-1566): an Error with a message, or something else.
ClassifierThrows(i, thrown) ==
    /\ i \in 1..Len(inFlight)
    /\ env.failures
    /\ inFlight' = Remove(inFlight, i)
    /\ pend' = [pend EXCEPT
                   !.classificationError = <<errorMessage(thrown)>>,
                   !.isClassifying = <<FALSE>>]
    /\ lastOp' = Op("handleClassify.resumed", "null",
                    <<[kind |-> "thrown", thrown |-> thrown]>>)
    /\ UNCHANGED <<ls, userData, recentClassifications, isClassifying,
                   classificationError, isLoggedIn, now, mounted, env,
                   isUploadModalOpen, currentUploadCategory, otherTab, bin1,
                   listeners, dashboard, leaderboard>>

Thrown ==
    {[isError |-> TRUE, message |-> m] : m \in ThrownMessages}
        \cup {[isError |-> FALSE, message |-> "timeout"]}

(***************************************************************************)
(* The render that applies the queued updates, in the order they were made.*)
(***************************************************************************)
Latest(queued, current) == IF queued = <<>> THEN current ELSE queued[1]

Render ==
    /\ mounted
    /\ pend # NoUpdates
    /\ pend' = NoUpdates
    /\ userData' = valueAfter(pend.userData, Len(pend.userData), userData)
    /\ \E ok \in WriteOutcomes :
          ls' = storageAfter(pend.userData, Len(pend.userData), userData, ls, ok)
    /\ isLoggedIn' = Latest(pend.isLoggedIn, isLoggedIn)
    /\ recentClassifications' = Latest(pend.recentClassifications, recentClassifications)
    /\ isClassifying' = Latest(pend.isClassifying, isClassifying)
    /\ classificationError' = Latest(pend.classificationError, classificationError)
    /\ isUploadModalOpen' = Latest(pend.isUploadModalOpen, isUploadModalOpen)
    /\ lastOp' = Op("render", "", pend.userData)
    /\ UNCHANGED <<inFlight, now, mounted, env, currentUploadCategory, otherTab, bin1,
                   listeners, dashboard, leaderboard>>

(***************************************************************************)
(* A second tab showing the same page: the same handlers, on state hooks   *)
(* of its own and on the same local storage.                               *)
(***************************************************************************)
OtherTabInit ==
    [mounted |-> FALSE, isLoggedIn |-> FALSE, userData |-> defaultUserProfile,
     inFlight |-> <<>>, pend |-> [isLoggedIn |-> <<>>, userData |-> <<>>]]

\* checkLoginStatus (lines 1373-1438) in the second tab.
OtherTab_checkLoginStatus ==
    LET loggedIn == ls.isLoggedIn = "true"
        stored == getFromLocalStorage_userData(defaultUserProfile)
        storedUserData == reconciled(stored, loggedIn, ls.userEmail, ls.userName)
    IN  /\ ls' = IF ls.userData # <<storedUserData>>
                 THEN saveToLocalStorage(ls, "userData", <<storedUserData>>, TRUE)
                 ELSE ls
        /\ otherTab' = [otherTab EXCEPT
                           !.mounted = TRUE,
                           !.pend = [isLoggedIn |-> <<loggedIn>>,
                                     userData |-> Append(otherTab.pend.userData,
                                                         SetValue(storedUserData))]]
        /\ lastOp' = Op("otherTab.checkLoginStatus",
                        IF loggedIn THEN "loggedIn" ELSE "guest", <<stored>>)
        /\ UNCHANGED <<userData, recentClassifications, isClassifying,
                       classificationError, isLoggedIn, pend, inFlight, now, mounted,
                       isUploadModalOpen, currentUploadCategory, bin1,
                   listeners, dashboard, leaderboard>>

\* The mount effect of the second tab (line 1440).
OtherTab_Mount ==
    /\ env.otherAttempts > 0
    /\ ~otherTab.mounted
    /\ OtherTab_checkLoginStatus
    /\ UNCHANGED env

\* The 'storage' listener of the second tab (lines 1443-1448).
OtherTab_StorageEvent ==
    /\ otherTab.mounted
    /\ env.otherChecks > 0
    /\ env' = [env EXCEPT !.otherChecks = @ - 1]
    /\ OtherTab_checkLoginStatus

\* handleClassify in the second tab, up to the await of line 1480.
OtherTab_handleClassify(imageDataUri) ==
    /\ otherTab.mounted
    /\ otherTab.isLoggedIn
    /\ otherTab.inFlight = <<>>
    /\ env.otherAttempts > 0
    /\ env' = [env EXCEPT !.otherAttempts = @ - 1]
    /\ otherTab' = [otherTab EXCEPT !.inFlight = <<imageDataUri>>]
    /\ lastOp' = Op("otherTab.handleClassify", "pending", <<>>)
    /\ UNCHANGED <<ls, userData, recentClassifications, isClassifying,
                   classificationError, isLoggedIn, pend, inFlight, now, mounted,
                   isUploadModalOpen, currentUploadCategory, bin1,
                   listeners, dashboard, leaderboard>>

\* handleClassify in the second tab, resumed with a category (lines 1494-1549).
OtherTab_ClassifierReturns(category, confidence) ==
    /\ otherTab.inFlight # <<>>
    /\ LET record == newRecord(otherTab.inFlight[1], category, confidence)
           currentHistory == getFromLocalStorage_history
       IN  /\ ls' = saveToLocalStorage(ls, "history",
                                       updatedHistory(record, currentHistory), TRUE)
           /\ otherTab' = [otherTab EXCEPT
                              !.inFlight = <<>>,
                              !.pend.userData = Append(@, Updater(category, record.points))]
    /\ lastOp' = Op("otherTab.handleClassify.resumed", "result", <<>>)
    /\ now' = now + 1
    /\ UNCHANGED <<userData, recentClassifications, isClassifying,
                   classificationError, isLoggedIn, pend, inFlight, mounted,
                   isUploadModalOpen, currentUploadCategory, env, bin1,
                   listeners, dashboard, leaderboard>>

\* The render of the second tab.
OtherTab_Render ==
    /\ otherTab.mounted
    /\ otherTab.pend # OtherTabInit.pend
    /\ otherTab' = [otherTab EXCEPT
                       !.pend = OtherTabInit.pend,
                       !.isLoggedIn = Latest(otherTab.pend.isLoggedIn, @),
                       !.userData = valueAfter(otherTab.pend.userData,
                                               Len(otherTab.pend.userData), @)]
    /\ ls' = storageAfter(otherTab.pend.userData, Len(otherTab.pend.userData),
                          otherTab.userData, ls, TRUE)
    /\ lastOp' = Op("otherTab.render", "", otherTab.pend.userData)
    /\ UNCHANGED <<userData, recentClassifications, isClassifying,
                   classificationError, isLoggedIn, pend, inFlight, now, mounted,
                   isUploadModalOpen, currentUploadCategory, env, bin1,
                   listeners, dashboard, leaderboard>>

(***************************************************************************)
(* The specification.                                                      *)
(***************************************************************************)
\* Runs over the whole input space of the classifier, by one logged-in user:
\* the classifier answers with one of two neighbouring labels of AllResponses.
CategoryRuns ==
    {[attempts |-> MaxAttempts, authWrites |-> 0, checks |-> MaxCategoryChecks,
      responses |-> {AllResponses[i], AllResponses[(i % Len(AllResponses)) + 1]},
      failures |-> TRUE, hints |-> Hints, faultyStorage |-> FALSE, closes |-> 0, oneSession |-> TRUE,
      otherAttempts |-> 0, otherChecks |-> 0] :
        i \in 1..Len(AllResponses)}

\* Runs in which the login keys change.
IdentityRuns ==
    {[attempts |-> MaxIdentityAttempts, authWrites |-> MaxAuthWrites, checks |-> MaxChecks,
      responses |-> {"cardboard"}, failures |-> FALSE, hints |-> {"general"},
      faultyStorage |-> FALSE, closes |-> 0, oneSession |-> FALSE,
      otherAttempts |-> 0, otherChecks |-> 0]}

\* Runs in which a write to local storage may fail.
FaultyRuns ==
    {[attempts |-> MaxAttempts, authWrites |-> 0, checks |-> MaxCategoryChecks,
      responses |-> {"glass"}, failures |-> TRUE, hints |-> {"general"},
      faultyStorage |-> TRUE, closes |-> 0, oneSession |-> TRUE,
      otherAttempts |-> 0, otherChecks |-> 0]}

\* Runs in which the user closes the upload dialog.
DialogRuns ==
    {[attempts |-> MaxDialogAttempts, authWrites |-> 0, checks |-> 0,
      responses |-> {"paper"}, failures |-> TRUE, hints |-> {"general"},
      faultyStorage |-> FALSE, closes |-> MaxCloses, oneSession |-> TRUE,
      otherAttempts |-> 0, otherChecks |-> 0]}

\* A long run of one user, past the capacity of the history.
LongRuns ==
    {[attempts |-> HISTORY_CAPACITY + MaxOverflow, authWrites |-> 0, checks |-> 0,
      responses |-> {"cardboard"}, failures |-> FALSE, hints |-> {"general"},
      faultyStorage |-> FALSE, closes |-> 0, oneSession |-> TRUE,
      otherAttempts |-> 0, otherChecks |-> 0]}

\* Runs of two tabs of one logged-in user.
TwoTabRuns ==
    {[attempts |-> MaxTabAttempts, authWrites |-> 0, checks |-> MaxTabChecks,
      responses |-> {"cardboard"}, failures |-> FALSE, hints |-> {"general"},
      faultyStorage |-> FALSE, closes |-> 0, oneSession |-> TRUE,
      otherAttempts |-> MaxTabAttempts, otherChecks |-> MaxTabChecks]}

Runs ==
    CategoryRuns \cup IdentityRuns \cup FaultyRuns \cup LongRuns \cup DialogRuns
        \cup TwoTabRuns

Init ==
    /\ env \in Runs
    /\ \E flag \in {"true", null}, email \in Emails \cup {null}, name \in UserNames \cup {null} :
          /\ flag = null => email = null /\ name = null
          /\ ls = [isLoggedIn |-> flag, userEmail |-> email, userName |-> name,
                   userData |-> <<>>, history |-> <<>>]
    /\ env.authWrites = 0 => ls.isLoggedIn = "true" /\ ls.userEmail = "ann@x.org"
                              /\ ls.userName = null
    /\ userData = defaultUserProfile
    /\ recentClassifications = <<>>
    /\ isClassifying = FALSE
    /\ classificationError = null
    /\ isLoggedIn = FALSE
    /\ pend = NoUpdates
    /\ inFlight = <<>>
    /\ now = 1
    /\ mounted = FALSE
    /\ isUploadModalOpen = FALSE
    /\ currentUploadCategory = null
    /\ otherTab = OtherTabInit
    /\ bin1 = Bin1Initial
    /\ listeners = IF mounted THEN MountListeners ELSE {}
    /\ dashboard = DashboardInitial
    /\ leaderboard = LeaderboardInitial
    /\ lastOp = Op("init", "", <<>>)

Next ==
    \/ Mount
    \/ \E key \in StorageKeys : StorageEvent(key)
    \/ AuthChangeEvent
    \/ \E email \in Emails \cup {null}, name \in UserNames \cup {null} :
          ExternalLogin(email, name)
    \/ ExternalLogout
    \/ \E categoryId \in env.hints : openUploadModalForCategory(categoryId)
    \/ DialogOnOpenChange(FALSE)
    \/ \E img \in Images : ImageUploadSubmit(img)
    \/ \E i \in 1..Len(inFlight) : ClassifierReturnsNothing(i)
    \/ \E i \in 1..Len(inFlight), category \in env.responses, confidence \in Confidences :
          ClassifierReturns(i, category, confidence)
    \/ \E i \in 1..Len(inFlight), thrown \in Thrown : ClassifierThrows(i, thrown)
    \/ Render
    \/ OtherTab_Mount
    \/ OtherTab_StorageEvent
    \/ \E img \in Images : OtherTab_handleClassify(img)
    \/ \E category \in env.responses, confidence \in Confidences :
          OtherTab_ClassifierReturns(category, confidence)
    \/ OtherTab_Render

Spec == Init /\ [][Next]_vars

(***************************************************************************)
(* The level card (lines 1116-1121 and 1569-1602).                         *)
(***************************************************************************)
\* targetForNext: Infinity, a value above every score of the model.
Infinity == 1000000000

LEVELS ==
    << [name |-> "Bronze", minScore |-> 0, targetForNext |-> 500],
       [name |-> "Silver", minScore |-> 500, targetForNext |-> 1500],
       [name |-> "Gold", minScore |-> 1500, targetForNext |-> 3000],
       [name |-> "Diamond", minScore |-> 3000, targetForNext |-> Infinity] >>

\* The loop of getCurrentLevel from index i down to the first level.
RECURSIVE levelFrom(_, _)
levelFrom(score, i) ==
    IF i < 1 THEN LEVELS[1]
    ELSE IF score >= LEVELS[i].minScore THEN LEVELS[i]
    ELSE levelFrom(score, i - 1)

\* A variant that scans the levels from the lowest one.
getCurrentLevel_FromBottom(score) ==
    IF \E i \in 1..Len(LEVELS) : score >= LEVELS[i].minScore
    THEN LEVELS[CHOOSE i \in 1..Len(LEVELS) :
                   /\ score >= LEVELS[i].minScore
                   /\ \A j \in 1..(i - 1) : score < LEVELS[j].minScore]
    ELSE LEVELS[1]

getCurrentLevel(score) == levelFrom(score, Len(LEVELS))

Max(a, b) == IF a >= b THEN a ELSE b

\* A variant without Math.max(0, ...).
scorePercentage_Unfloored(score) ==
    LET currentLevel == getCurrentLevel(score)
    IN  IF currentLevel.targetForNext # Infinity
        THEN LET pointsEarnedInLevel == score - currentLevel.minScore
                 pointsToNextLevelRange == currentLevel.targetForNext - currentLevel.minScore
             IN  IF pointsToNextLevelRange > 0
                 THEN IF pointsEarnedInLevel * 100 <= 100 * pointsToNextLevelRange
                      THEN [num |-> pointsEarnedInLevel * 100, den |-> pointsToNextLevelRange]
                      ELSE [num |-> 100, den |-> 1]
                 ELSE [num |-> IF score >= currentLevel.minScore THEN 100 ELSE 0, den |-> 1]
        ELSE [num |-> 100, den |-> 1]

\* scorePercentage (lines 1588-1602), in exact arithmetic: the fraction num/den.
\* Math.min(x, 100) keeps x = num/den when num <= 100 * den.
scorePercentage(score) ==
    LET currentLevel == getCurrentLevel(score)
    IN  IF currentLevel.targetForNext # Infinity
        THEN LET pointsEarnedInLevel == Max(0, score - currentLevel.minScore)
                 pointsToNextLevelRange == currentLevel.targetForNext - currentLevel.minScore
             IN  IF pointsToNextLevelRange > 0
                 THEN IF pointsEarnedInLevel * 100 <= 100 * pointsToNextLevelRange
                      THEN [num |-> pointsEarnedInLevel * 100, den |-> pointsToNextLevelRange]
                      ELSE [num |-> 100, den |-> 1]
                 ELSE [num |-> IF score >= currentLevel.minScore THEN 100 ELSE 0, den |-> 1]
        ELSE [num |-> 100, den |-> 1]

\* The scores the level card is rendered with.
Scores == (0 - MaxNegativeScore)..MaxScore

\* The render of the level card for the current score (lines 1586-1602).
RenderLevelCard ==
    /\ lastOp' = Op("renderLevelCard", getCurrentLevel(userData.score).name,
                    <<scorePercentage(userData.score)>>)
    /\ UNCHANGED <<ls, userData, recentClassifications, isClassifying,
                   classificationError, isLoggedIn, pend, inFlight, now, mounted,
                   isUploadModalOpen, currentUploadCategory, env, otherTab, bin1,
                   listeners, dashboard, leaderboard>>

\* The score part of the profile update (line 1519), for the points of a category.
ScoreIncreases(points) ==
    /\ userData.score + points <= MaxScore
    /\ userData' = [userData EXCEPT !.score = @ + points]
    /\ lastOp' = Op("scoreIncreases", "", <<>>)
    /\ UNCHANGED <<ls, recentClassifications, isClassifying,
                   classificationError, isLoggedIn, pend, inFlight, now, mounted,
                   isUploadModalOpen, currentUploadCategory, env, otherTab, bin1,
                   listeners, dashboard, leaderboard>>

\* The level card over every score: the page rendered with a profile of any
\* score of Scores.
LevelInit ==
    /\ env \in DialogRuns
    /\ ls = [isLoggedIn |-> "true", userEmail |-> "ann@x.org", userName |-> null,
             userData |-> <<>>, history |-> <<>>]
    /\ \E score \in Scores : userData = [defaultUserProfile EXCEPT !.score = score]
    /\ recentClassifications = <<>>
    /\ isClassifying = FALSE
    /\ classificationError = null
    /\ isLoggedIn = TRUE
    /\ pend = NoUpdates
    /\ inFlight = <<>>
    /\ now = 1
    /\ mounted = TRUE
    /\ isUploadModalOpen = FALSE
    /\ currentUploadCategory = null
    /\ otherTab = OtherTabInit
    /\ bin1 = Bin1Initial
    /\ listeners = IF mounted THEN MountListeners ELSE {}
    /\ dashboard = DashboardInitial
    /\ leaderboard = LeaderboardInitial
    /\ lastOp = Op("init", "", <<>>)

LevelNext ==
    \/ RenderLevelCard
    \/ \E category \in WasteCategory : ScoreIncreases(WASTE_POINTS[category])

LevelSpec == LevelInit /\ [][LevelNext]_vars

(***************************************************************************)
(* The /bin1 listener of DetailedDashboardPage (lines 275-344).            *)
(***************************************************************************)
\* An entry of fill_level_history: null, or an object whose fill_level is a
\* number or something else.
NoItem == [type |-> "null", fill_level |-> 0]
HistoryItems ==
    {NoItem, [type |-> "number", fill_level |-> 0], [type |-> "number", fill_level |-> 40],
     [type |-> "number", fill_level |-> 85], [type |-> "string", fill_level |-> 0]}

RECURSIVE SeqsUpTo(_, _)
SeqsUpTo(S, n) ==
    IF n = 0 THEN {<<>>}
    ELSE LET shorter == SeqsUpTo(S, n - 1)
         IN  shorter \cup {Append(q, x) : q \in shorter, x \in S}

\* snapshot.val() of /bin1: null, a node without fill_level_history, a node whose
\* fill_level_history is not an array, or a node with the array.
Snapshots ==
    {[node |-> "null", fill_level_history |-> <<>>],
     [node |-> "missing", fill_level_history |-> <<>>],
     [node |-> "notArray", fill_level_history |-> <<>>]}
        \cup {[node |-> "array", fill_level_history |-> h] :
                 h \in SeqsUpTo(HistoryItems, MaxHistoryLen)}

\* rawHistory.filter(item => item && typeof item.fill_level === 'number' && item.fill_level > 0)
RECURSIVE filteredHistory(_)
filteredHistory(rawHistory) ==
    IF rawHistory = <<>> THEN <<>>
    ELSE LET item == Head(rawHistory)
             rest == filteredHistory(Tail(rawHistory))
         IN  IF item # NoItem /\ item.type = "number" /\ item.fill_level > 0
             THEN <<item>> \o rest
             ELSE rest

\* filteredHistory.map((item, chartIndex) => ({index: chartIndex, fill_level: item.fill_level}))
chartData(filtered) ==
    [i \in 1..Len(filtered) |-> [index |-> i - 1, fill_level |-> filtered[i].fill_level]]

\* The effect that subscribes (lines 275-292).
Bin1Effect(databaseInitialised) ==
    /\ lastOp.op = "init"
    /\ bin1' = IF databaseInitialised
               THEN [bin1 EXCEPT !.isLoadingBin1History = TRUE, !.bin1HistoryError = null]
               ELSE [bin1HistoryData |-> <<>>, isLoadingBin1History |-> FALSE,
                     bin1HistoryError |-> "Firebase Realtime Database is not initialized"]
    /\ lastOp' = Op("bin1.effect", IF databaseInitialised THEN "listening" ELSE "off", <<>>)
    /\ UNCHANGED <<ls, userData, recentClassifications, isClassifying,
                   classificationError, isLoggedIn, pend, inFlight, mounted,
                   isUploadModalOpen, currentUploadCategory, otherTab, now, env,
                   listeners, dashboard, leaderboard>>

\* The onValue callback (lines 295-338).  In the array branch the name
\* filteredHistory, declared inside the inner else block (line 308), is read at
\* line 323 outside of that block: the read throws a ReferenceError, and the
\* statements of lines 327 and 338 are not reached.  The build ignores the
\* type error (next.config.ts, line 6).
Bin1OnValue(snapshot) ==
    /\ lastOp.ret = "listening"
    /\ now < MaxSnapshots
    /\ now' = now + 1
    /\ IF snapshot.node = "array"
       THEN LET rawHistory == snapshot.fill_level_history
            IN  /\ bin1' = [bin1 EXCEPT
                               !.bin1HistoryData =
                                   IF Len(rawHistory) = 0 THEN <<>>
                                   ELSE chartData(filteredHistory(rawHistory))]
                /\ lastOp' = Op("bin1.onValue", "listening", <<snapshot, "ReferenceError">>)
       ELSE /\ bin1' = [bin1 EXCEPT !.bin1HistoryData = <<>>,
                                    !.isLoadingBin1History = FALSE]
            /\ lastOp' = Op("bin1.onValue", "listening", <<snapshot, "returned">>)
    /\ UNCHANGED <<ls, userData, recentClassifications, isClassifying,
                   classificationError, isLoggedIn, pend, inFlight, mounted,
                   isUploadModalOpen, currentUploadCategory, otherTab, env,
                   listeners, dashboard, leaderboard>>

\* The error callback of onValue (lines 339-343).
Bin1OnError(message) ==
    /\ lastOp.ret = "listening"
    /\ bin1' = [bin1 EXCEPT !.bin1HistoryError = "Could not load Bin1 data. " \o message,
                            !.isLoadingBin1History = FALSE]
    /\ lastOp' = Op("bin1.onError", "off", <<>>)
    /\ UNCHANGED <<ls, userData, recentClassifications, isClassifying,
                   classificationError, isLoggedIn, pend, inFlight, mounted,
                   isUploadModalOpen, currentUploadCategory, otherTab, now, env,
                   listeners, dashboard, leaderboard>>

Bin1Init ==
    /\ env \in DialogRuns
    /\ ls = [isLoggedIn |-> "true", userEmail |-> "ann@x.org", userName |-> null,
             userData |-> <<>>, history |-> <<>>]
    /\ userData = defaultUserProfile
    /\ recentClassifications = <<>>
    /\ isClassifying = FALSE
    /\ classificationError = null
    /\ isLoggedIn = TRUE
    /\ pend = NoUpdates
    /\ inFlight = <<>>
    /\ now = 1
    /\ mounted = TRUE
    /\ isUploadModalOpen = FALSE
    /\ currentUploadCategory = null
    /\ otherTab = OtherTabInit
    /\ bin1 = Bin1Initial
    /\ listeners = IF mounted THEN MountListeners ELSE {}
    /\ dashboard = DashboardInitial
    /\ leaderboard = LeaderboardInitial
    /\ lastOp = Op("init", "", <<>>)

Bin1Next ==
    \/ \E databaseInitialised \in BOOLEAN : Bin1Effect(databaseInitialised)
    \/ \E snapshot \in Snapshots : Bin1OnValue(snapshot)
    \/ \E message \in {"permission_denied"} : Bin1OnError(message)

Bin1Spec == Bin1Init /\ [][Bin1Next]_vars

(***************************************************************************)
(* The timers of DetailedDashboardPage (lines 116-157).                    *)
(***************************************************************************)
\* Math.floor(Math.random() * 20) + 5 and Math.floor(Math.random() * 70) + 10:
\* the extreme values.
InitialVolumes == {5, 24}
Volumes == {10, 79}

\* setInterval and clearInterval on the table of the window's intervals: an
\* interval has the name of the constant that holds its id, a period, and the
\* time at which it fires next.
setInterval(table, id, period, t) ==
    table \cup {[id |-> id, period |-> period, due |-> t + period]}
\* A clearInterval that clears nothing.
clearInterval_Leaks(table, id) == table
clearInterval(table, id) == {i \in table : i.id # id}

\* .slice(-n)
LastN(seq, n) == IF Len(seq) <= n THEN seq ELSE SubSeq(seq, Len(seq) - n + 1, Len(seq))

\* The five initial points (lines 139-143), all of one volume.
initialData(t, volume) ==
    LastN([i \in 1..5 |->
              [timestamp |-> t - (i - 1) * REAL_TIME_EWASTE_UPDATE_INTERVAL * (5 - (i - 1)),
               volume |-> volume]],
          MAX_REAL_TIME_EWASTE_POINTS)

\* The two effects with an interval (lines 116-135 and 138-157) run on mount.
DashboardMount(volume) ==
    /\ lastOp.op = "init"
    /\ ~dashboard.mounted
    /\ dashboard' =
          [mounted |-> TRUE,
           intervals |->
               setInterval(setInterval(dashboard.intervals, "timer",
                                       CLOCK_UPDATE_INTERVAL, now),
                           "interval", REAL_TIME_EWASTE_UPDATE_INTERVAL, now),
           currentTime |-> now,
           realTimeEWasteData |-> initialData(now, volume)]
    /\ lastOp' = Op("dashboard.mount", "", <<>>)
    /\ UNCHANGED <<ls, userData, recentClassifications, isClassifying,
                   classificationError, isLoggedIn, pend, inFlight, now, mounted,
                   isUploadModalOpen, currentUploadCategory, otherTab, bin1,
                   listeners, leaderboard, env>>

\* () => setCurrentTime(new Date())                              (line 128)
timerCallback(d, t) == [d EXCEPT !.currentTime = t]

\* The callback of lines 145-154: a new point, the last 20 kept.
intervalCallback(d, t, volume) ==
    [d EXCEPT !.realTimeEWasteData =
                  LastN(Append(@, [timestamp |-> t, volume |-> volume]),
                        MAX_REAL_TIME_EWASTE_POINTS)]

\* A second passes: every interval of the table that is due fires and is
\* scheduled again.
SecondPasses(volume) ==
    /\ lastOp.op # "init"
    /\ now < MaxSeconds
    /\ now' = now + 1
    /\ LET due == {i.id : i \in {j \in dashboard.intervals : j.due = now'}}
           afterTimer == IF "timer" \in due THEN timerCallback(dashboard, now')
                         ELSE dashboard
           afterBoth == IF "interval" \in due THEN intervalCallback(afterTimer, now', volume)
                        ELSE afterTimer
       IN  /\ dashboard' =
                 [afterBoth EXCEPT !.intervals =
                     {IF i.due = now' THEN [i EXCEPT !.due = @ + i.period] ELSE i :
                         i \in dashboard.intervals}]
           /\ lastOp' = Op("secondPasses", "", <<due>>)
    /\ UNCHANGED <<ls, userData, recentClassifications, isClassifying,
                   classificationError, isLoggedIn, pend, inFlight, mounted,
                   isUploadModalOpen, currentUploadCategory, otherTab, bin1,
                   listeners, leaderboard, env>>

\* The cleanups of the two effects (lines 130-133 and 156).
DashboardUnmount ==
    /\ dashboard.mounted
    /\ dashboard' = [dashboard EXCEPT
                        !.mounted = FALSE,
                        !.intervals = clearInterval(clearInterval(@, "timer"), "interval")]
    /\ lastOp' = Op("dashboard.unmount", "", <<>>)
    /\ UNCHANGED <<ls, userData, recentClassifications, isClassifying,
                   classificationError, isLoggedIn, pend, inFlight, now, mounted,
                   isUploadModalOpen, currentUploadCategory, otherTab, bin1,
                   listeners, leaderboard, env>>

TimerNext ==
    \/ \E volume \in InitialVolumes : DashboardMount(volume)
    \/ \E volume \in Volumes : SecondPasses(volume)
    \/ DashboardUnmount

TimerSpec == Bin1Init /\ [][TimerNext]_vars

(***************************************************************************)
(* LeaderboardPage (leaderboard/page.tsx).                                 *)
(***************************************************************************)
\* The fields of defaultCurrentUserStats (lines 16-40) that the page reads.
defaultCurrentUserStats ==
    [id |-> "current-user", displayName |-> "You", email |-> "", score |-> 0]

\* A document of the users collection: its id and its data.  The data may or
\* may not repeat the identity in a field named id; Absent marks a field the
\* data does not have.
Absent == "<absent>"
IdFields == {"absent", "documentId", "email"}
UserEmails == [i \in 1..3 |-> <<"ann@x.org", "bob@x.org", "cy@x.org">>[i]]
userDocument(n, idField) ==
    LET email == IF n <= 3 THEN UserEmails[n] ELSE "user" \o ToString(n) \o "@x.org"
        docId == "uid" \o ToString(n)
    IN  [id |-> docId,
         data |-> [id |-> CASE idField = "absent" -> Absent
                            [] idField = "documentId" -> docId
                            [] idField = "email" -> email,
                   displayName |-> IF n = 2 THEN "" ELSE "User " \o ToString(n),
                   email |-> email,
                   score |-> 10 * ((n * 7) % 13)]]

\* { ...base, ...data }: the fields of the data replace those of base.
spread(base, data) ==
    [f \in DOMAIN base \cup {"id", "displayName", "email", "score"} |->
        IF f \in DOMAIN data /\ ~(f = "id" /\ data.id = Absent) THEN data[f] ELSE base[f]]

\* query(usersRef, where('email', '==', userEmail), limit(1))      (line 73)
RECURSIVE whereEmail(_, _)
whereEmail(users, userEmail) ==
    IF users = <<>> THEN <<>>
    ELSE IF Head(users).data.email = userEmail THEN <<Head(users)>>
         ELSE whereEmail(Tail(users), userEmail)

\* orderBy('score', 'desc'), limit(10)                              (line 88)
RECURSIVE InsertByScore(_, _)
InsertByScore(sorted, doc) ==
    IF sorted = <<>> THEN <<doc>>
    ELSE IF Head(sorted).data.score >= doc.data.score
         THEN <<Head(sorted)>> \o InsertByScore(Tail(sorted), doc)
         ELSE <<doc>> \o sorted

RECURSIVE orderByScoreDesc(_)
orderByScoreDesc(users) ==
    IF users = <<>> THEN <<>>
    ELSE InsertByScore(orderByScoreDesc(SubSeq(users, 1, Len(users) - 1)),
                       users[Len(users)])

leaderboardQuery(users) == Slice(orderByScoreDesc(users), LEADERBOARD_LIMIT)

\* fetchLeaderboardData up to its first await (lines 49-73), or, for a guest,
\* up to its second (line 89).
fetchLeaderboardData(firestoreInitialised) ==
    /\ lastOp.op = "init"
    /\ IF ~firestoreInitialised
       THEN /\ leaderboard' = [leaderboard EXCEPT
                                  !.isLoading = FALSE,
                                  !.error = "Firebase Firestore is not initialized."]
            /\ lastOp' = Op("fetchLeaderboardData", "returned", <<>>)
       ELSE IF Truthy(ls.userEmail)
       THEN /\ leaderboard' = [leaderboard EXCEPT !.isLoading = TRUE, !.error = null,
                                                  !.awaiting = "userQuery"]
            /\ lastOp' = Op("fetchLeaderboardData", "pending", <<>>)
       ELSE /\ leaderboard' =
                  [leaderboard EXCEPT
                      !.isLoading = TRUE, !.error = null, !.awaiting = "leaderboardQuery",
                      !.currentUserStats =
                          <<[defaultCurrentUserStats EXCEPT
                                !.displayName = "Guest (Log in to see your stats)"]>>]
            /\ lastOp' = Op("fetchLeaderboardData", "pending", <<>>)
    /\ UNCHANGED <<ls, userData, recentClassifications, isClassifying,
                   classificationError, isLoggedIn, pend, inFlight, now, mounted,
                   isUploadModalOpen, currentUploadCategory, otherTab, bin1,
                   listeners, dashboard, env>>

\* The user query answers (lines 74-82).
UserQueryReturns ==
    /\ leaderboard.awaiting = "userQuery"
    /\ LET userSnapshot == whereEmail(leaderboard.users, ls.userEmail)
           localUserName == IF Truthy(ls.userName) THEN ls.userName
                            ELSE IF LocalPart(ls.userEmail) # "" THEN LocalPart(ls.userEmail)
                            ELSE "You"
       IN  leaderboard' =
              [leaderboard EXCEPT
                  !.awaiting = "leaderboardQuery",
                  !.currentUserStats =
                      IF userSnapshot # <<>>
                      THEN LET data == userSnapshot[1].data
                           IN  <<[spread(defaultCurrentUserStats, data) EXCEPT
                                     !.displayName = IF Truthy(data.displayName)
                                                     THEN data.displayName ELSE "You"]>>
                      ELSE <<[defaultCurrentUserStats EXCEPT
                                 !.email = ls.userEmail, !.displayName = localUserName]>>]
    /\ lastOp' = Op("fetchLeaderboardData.resumed", "pending", <<>>)
    /\ UNCHANGED <<ls, userData, recentClassifications, isClassifying,
                   classificationError, isLoggedIn, pend, inFlight, now, mounted,
                   isUploadModalOpen, currentUploadCategory, otherTab, bin1,
                   listeners, dashboard, env>>

\* The leaderboard query answers (lines 89-94), then the finally clause.
LeaderboardQueryReturns ==
    /\ leaderboard.awaiting = "leaderboardQuery"
    /\ LET querySnapshot == leaderboardQuery(leaderboard.users)
       IN  leaderboard' =
              [leaderboard EXCEPT
                  !.awaiting = "",
                  !.isLoading = FALSE,
                  !.leaderboardData =
                      [i \in 1..Len(querySnapshot) |->
                          spread([id |-> querySnapshot[i].id], querySnapshot[i].data)]]
    /\ lastOp' = Op("fetchLeaderboardData.resumed", "returned", <<>>)
    /\ UNCHANGED <<ls, userData, recentClassifications, isClassifying,
                   classificationError, isLoggedIn, pend, inFlight, now, mounted,
                   isUploadModalOpen, currentUploadCategory, otherTab, bin1,
                   listeners, dashboard, env>>

\* Either query throws (lines 95-104).
QueryThrows ==
    /\ leaderboard.awaiting # ""
    /\ leaderboard' = [leaderboard EXCEPT
                          !.awaiting = "",
                          !.isLoading = FALSE,
                          !.error = "Failed to load leaderboard data. Please try again later."]
    /\ lastOp' = Op("fetchLeaderboardData.resumed", "thrown", <<>>)
    /\ UNCHANGED <<ls, userData, recentClassifications, isClassifying,
                   classificationError, isLoggedIn, pend, inFlight, now, mounted,
                   isUploadModalOpen, currentUploadCategory, otherTab, bin1,
                   listeners, dashboard, env>>

\* leaderboardData.findIndex(user => user.id === id), from 0; -1 if none.
RECURSIVE findIndex(_, _, _)
findIndex(users, id, from) ==
    IF from >= Len(users) THEN 0 - 1
    ELSE IF users[from + 1].id = id THEN from
    ELSE findIndex(users, id, from + 1)

\* getRankForCurrentUser (lines 112-120); a number is given in decimal.
getRankForCurrentUser ==
    IF leaderboard.currentUserStats = <<>> \/ leaderboard.currentUserStats[1].id = ""
    THEN "N/A"
    ELSE LET rankIndex == findIndex(leaderboard.leaderboardData,
                                    leaderboard.currentUserStats[1].id, 0)
         IN  IF rankIndex # 0 - 1 THEN ToString(rankIndex + 1)
             ELSE "N/A (Not in Top 10)"

\* The page rendered after loading: the rank shown in the card.
RenderRank ==
    /\ ~leaderboard.isLoading
    /\ lastOp.op # "renderRank"
    /\ lastOp' = Op("renderRank", getRankForCurrentUser, <<>>)
    /\ UNCHANGED <<ls, userData, recentClassifications, isClassifying,
                   classificationError, isLoggedIn, pend, inFlight, now, mounted,
                   isUploadModalOpen, currentUploadCategory, otherTab, bin1,
                   listeners, dashboard, leaderboard, env>>

\* The page after construction, for a users collection of any size up to
\* MaxUsers, written with or without an id field, and a visitor who is a
\* guest or one of three users.
LeaderboardInit ==
    /\ env \in DialogRuns
    /\ \E email \in {null, "ann@x.org", "bob@x.org", "cy@x.org"}, name \in {null, "Ann"} :
          ls = [isLoggedIn |-> IF email = null THEN null ELSE "true",
                userEmail |-> email, userName |-> IF email = null THEN null ELSE name,
                userData |-> <<>>, history |-> <<>>]
    /\ userData = defaultUserProfile
    /\ recentClassifications = <<>>
    /\ isClassifying = FALSE
    /\ classificationError = null
    /\ isLoggedIn = FALSE
    /\ pend = NoUpdates
    /\ inFlight = <<>>
    /\ now = 1
    /\ mounted = FALSE
    /\ isUploadModalOpen = FALSE
    /\ currentUploadCategory = null
    /\ otherTab = OtherTabInit
    /\ bin1 = Bin1Initial
    /\ listeners = {}
    /\ dashboard = DashboardInitial
    /\ \E size \in 0..MaxUsers, idField \in IdFields :
          leaderboard = [LeaderboardInitial EXCEPT
                            !.users = [n \in 1..size |-> userDocument(n, idField)]]
    /\ lastOp = Op("init", "", <<>>)

LeaderboardNext ==
    \/ \E firestoreInitialised \in BOOLEAN : fetchLeaderboardData(firestoreInitialised)
    \/ UserQueryReturns
    \/ LeaderboardQueryReturns
    \/ QueryThrows
    \/ RenderRank

LeaderboardSpec == LeaderboardInit /\ [][LeaderboardNext]_vars

(***************************************************************************)
(* The teardown of the home view (lines 1453-1456).                        *)
(***************************************************************************)
\* The cleanup of the mount effect, as written: both calls pass checkLoginStatus.
Unmount ==
    /\ mounted
    /\ mounted' = FALSE
    /\ listeners' = removeEventListener(
                        removeEventListener(listeners, "storage", "checkLoginStatus"),
                        "authChange", "checkLoginStatus")
    /\ lastOp' = Op("unmount", "", <<>>)
    /\ UNCHANGED <<ls, userData, recentClassifications, isClassifying,
                   classificationError, isLoggedIn, pend, inFlight, now,
                   isUploadModalOpen, currentUploadCategory, otherTab, bin1,
                   dashboard, leaderboard, env>>

\* The home view from construction to after its teardown, while the login keys
\* change and events are delivered.
TeardownInit == Init /\ env \in IdentityRuns

TeardownNext ==
    \/ Mount
    \/ \E key \in StorageKeys : StorageEvent(key)
    \/ AuthChangeEvent
    \/ \E email \in Emails \cup {null}, name \in UserNames \cup {null} :
          ExternalLogin(email, name)
    \/ ExternalLogout
    \/ Render
    \/ Unmount

TeardownSpec == TeardownInit /\ [][TeardownNext]_vars

(***************************************************************************)
(* Properties.                                                             *)
(***************************************************************************)
\* The step resumes handleClassify after the await / applies the queued updates.
Resumed(kind) ==
    /\ lastOp'.op = "handleClassify.resumed"
    /\ lastOp'.arg[1].kind = kind
Rendered == lastOp'.op = "render" /\ pend # NoUpdates /\ pend' = NoUpdates

\* C1: while isLoggedIn is false, an invocation of handleClassify returns null,
\* starts no classifier call and changes neither the in-memory profile (the
\* committed one and the updates queued on it), nor the stored profile and
\* history, nor recentClassifications, nor isClassifying.
C1_UnauthenticatedAttemptChangesNothing ==
    [][(~isLoggedIn /\ lastOp'.op = "handleClassify")
          => /\ lastOp'.ret = "null"
             /\ inFlight' = inFlight
             /\ UNCHANGED <<userData, ls, recentClassifications, isClassifying, pend>>]_vars

C1_Witness ==
    /\ lastOp = Op("handleClassify", "null", <<"AuthRequired">>)
    /\ ~isLoggedIn
    /\ mounted
    /\ inFlight = <<>>

\* C2: the updater queued by a classification resolved to a category C of the
\* enumeration raises score by WASTE_POINTS[C] and itemsClassified by 1, raises
\* by 1 the counter verticalLogCategories maps C to (none for plastic, organic,
\* recyclable, compostable, non-recyclable) and leaves the other counters,
\* challengesCompleted, badges and the identity fields as they were.
Unmapped == {"plastic", "organic", "recyclable", "compostable", "non-recyclable"}
MappedCounters(category) ==
    {verticalLogCategories[i].quantityKey :
        i \in {j \in 1..Len(verticalLogCategories) : verticalLogCategories[j].id = category}}

ScoredAs(prev, next, category) ==
    /\ next.score = prev.score + WASTE_POINTS[category]
    /\ next.itemsClassified = prev.itemsClassified + 1
    /\ Cardinality(MappedCounters(category)) = IF category \in Unmapped THEN 0 ELSE 1
    /\ \A key \in CounterKeys :
          next[key] = prev[key] + IF key \in MappedCounters(category) THEN 1 ELSE 0
    /\ next.challengesCompleted = prev.challengesCompleted
    /\ next.badges = prev.badges
    /\ next.id = prev.id
    /\ next.displayName = prev.displayName
    /\ next.email = prev.email
    /\ next.avatar = prev.avatar

C2_ScoreByCategory ==
    [][Rendered =>
          \A n \in 1..Len(pend.userData) :
             (pend.userData[n].kind = "update" /\ pend.userData[n].category \in WasteCategory)
                => ScoredAs(valueAfter(pend.userData, n - 1, userData),
                            IF n = Len(pend.userData) THEN userData'
                            ELSE valueAfter(pend.userData, n, userData),
                            pend.userData[n].category)]_vars

\* "organic" (no counter) scored on top of an earlier "other" (totalOther).
C2_Witness ==
    /\ lastOp = Op("render", "", <<Updater("organic", 60)>>)
    /\ userData.score = 70
    /\ userData.itemsClassified = 2
    /\ userData.totalOther = 1
    /\ userData.totalOrganic = 0
    /\ userData.id = "ann@x.org"

\* C3: the stored history never holds more than 50 records and is ordered newest
\* first; as long as no write fails it holds exactly the most recent records,
\* so that a record added to a full history evicts the oldest one and no other
\* (the k-th record of the run has id k).
C3_HistoryBounded ==
    /\ Len(ls.history) <= 50
    /\ \A i, j \in 1..Len(ls.history) :
          i < j => ls.history[i].timestamp > ls.history[j].timestamp
    /\ ~env.faultyStorage =>
          /\ Len(ls.history) = IF now - 1 < 50 THEN now - 1 ELSE 50
          /\ \A i \in 1..Len(ls.history) : ls.history[i].id = now - i

\* After the 51st classification: the first record is gone, the second is the oldest.
C3_Witness ==
    /\ now = 52
    /\ Len(ls.history) = 50
    /\ ls.history[1].id = 51
    /\ ls.history[50].id = 2
    /\ lastOp.op = "handleClassify.resumed"

\* C4: an answer whose category is not in the WasteCategory enumeration fails
\* as an invalid result: null is returned, the profile, its queued updates and
\* the stored history are unchanged, and the history never holds a record with
\* a category outside the enumeration.
C4_UnknownCategoryIsInvalidResult ==
    [][/\ (Resumed("result") /\ lastOp'.arg[1].category \notin WasteCategory)
            => /\ lastOp'.ret = "null"
               /\ pend'.userData = pend.userData
               /\ UNCHANGED <<userData, ls>>
       /\ \A i \in 1..Len(ls'.history) : ls'.history[i].category \in WasteCategory]_vars

\* C5: when the classifier returns without a category, handleClassify returns
\* null and sets classificationError to the invalid-result message, which no
\* failed call produces; the profile, its queued updates, the stored profile
\* and the stored history are unchanged, and the next render shows the message.
C5_NoCategoryIsInvalidResult ==
    [][/\ Resumed("nothing")
            => /\ lastOp'.ret = "null"
               /\ pend'.classificationError = <<InvalidResultMessage>>
               /\ \A thrown \in Thrown : errorMessage(thrown) # InvalidResultMessage
               /\ pend'.userData = pend.userData
               /\ UNCHANGED <<userData, ls>>
       /\ (Rendered /\ pend.classificationError # <<>>)
            => classificationError' = pend.classificationError[1]]_vars

C5_Witness ==
    /\ lastOp = Op("handleClassify.resumed", "null", <<[kind |-> "nothing"]>>)
    /\ pend.classificationError = <<InvalidResultMessage>>
    /\ pend.userData = <<>>
    /\ userData.score = 30
    /\ ls.userData = <<userData>>
    /\ Len(ls.history) = 1

\* C6: when the classifier call throws, handleClassify returns null with
\* classificationError set to the error's message (the generic message when
\* what was thrown is not an Error), the call is over and none is started, and
\* the profile, its queued updates, the stored profile, the stored history and
\* recentClassifications are unchanged.
C6_ThrownCallChangesNothing ==
    [][Resumed("thrown")
          => /\ lastOp'.ret = "null"
             /\ pend'.classificationError =
                   <<IF lastOp'.arg[1].thrown.isError
                     THEN lastOp'.arg[1].thrown.message ELSE UnknownErrorMessage>>
             /\ Len(inFlight') = Len(inFlight) - 1
             /\ env' = env
             /\ pend'.userData = pend.userData
             /\ pend'.recentClassifications = pend.recentClassifications
             /\ UNCHANGED <<userData, ls, recentClassifications>>]_vars

C6_Witness ==
    /\ lastOp = Op("handleClassify.resumed", "null",
                   <<[kind |-> "thrown",
                      thrown |-> [isError |-> TRUE, message |-> "Failed to fetch"]]>>)
    /\ pend.classificationError = <<"Failed to fetch">>
    /\ inFlight = <<>>
    /\ userData.itemsClassified = 1
    /\ ls.userData = <<userData>>

C8_AtomicOutcome ==
    [][Rendered =>
          \A n \in 1..Len(pend.userData) :
             pend.userData[n].kind = "update" =>
                LET expected == valueAfter(pend.userData, n, userData)
                    recorded == \E i \in 1..Len(ls'.history) : ls'.history[i].id = now - 1
                IN  /\ recorded <=> userData' = expected
                    /\ recorded <=> ls'.userData = <<expected>>]_vars

\* The value checkLoginStatus passed to setUserData in this step.
Reconciled == pend'.userData[Len(pend'.userData)].value[1]

\* C9: when checkLoginStatus runs with the stored flag not 'true', the profile
\* it sets is the default guest profile, whatever was stored.
C9_LoggedOutYieldsDefault ==
    [][(lastOp'.op = "checkLoginStatus" /\ ls.isLoggedIn # "true")
          => Reconciled = defaultUserProfile]_vars

\* The profile C10 expects after a re-initialisation: the identity from the
\* hints, the statistics of the stored profile if carry, zero otherwise.
ReinitialisedAs(result, stored, userEmail, userName, carry) ==
    /\ result.id = IF Truthy(userEmail) THEN userEmail ELSE "firebaseUser"
    /\ result.email = IF Truthy(userEmail) THEN userEmail ELSE ""
    /\ result.displayName = IF Truthy(userName) THEN userName
                            ELSE IF Truthy(userEmail) THEN LocalPart(userEmail) ELSE "User"
    /\ \A field \in CounterKeys \cup {"score", "co2Managed", "itemsClassified",
                                     "challengesCompleted"} :
          result[field] = IF carry THEN stored[field] ELSE 0
    /\ result.badges = IF carry THEN stored.badges ELSE {}

\* The profile read by the checkLoginStatus step.
Stored == IF ls.userData = <<>> THEN defaultUserProfile ELSE ls.userData[1]

\* Re-initialised when the stored profile is a mismatch, kept otherwise.
ReconciledBy(mismatch) ==
    IF mismatch
    THEN ReinitialisedAs(Reconciled, Stored, ls.userEmail, ls.userName,
                         Truthy(ls.userEmail) /\ Stored.email = ls.userEmail)
    ELSE Reconciled = Stored

\* C10 as stated: the stored profile does not match when its id is 'localUser',
\* or its email differs from userEmail, or its displayName differs from userName.
MismatchAsStated(stored, userEmail, userName) ==
    \/ stored.id = "localUser"
    \/ stored.email # userEmail
    \/ stored.displayName # userName

C10_AsStated ==
    [][(lastOp'.op = "checkLoginStatus" /\ ls.isLoggedIn = "true")
          => ReconciledBy(MismatchAsStated(Stored, ls.userEmail, ls.userName))]_vars

\* C10, amended: only a hint that is present can make the stored profile a
\* mismatch; with the hint absent the stored profile is kept unchanged.
MismatchOfPresentHints(stored, userEmail, userName) ==
    \/ stored.id = "localUser"
    \/ (Truthy(userEmail) /\ stored.email # userEmail)
    \/ (Truthy(userName) /\ stored.displayName # userName)

C10_ReconcilesOnPresentHints ==
    [][(lastOp'.op = "checkLoginStatus" /\ ls.isLoggedIn = "true")
          => ReconciledBy(MismatchOfPresentHints(Stored, ls.userEmail, ls.userName))]_vars

\* The stored profile of ann, with a score, is re-initialised for the new
\* userName and keeps its statistics.
C10_Witness ==
    /\ lastOp.op = "checkLoginStatus"
    /\ lastOp.ret = "loggedIn"
    /\ lastOp.arg[1].displayName = "ann"
    /\ lastOp.arg[1].score = 80
    /\ ls.userName = "Ann"
    /\ ls.userEmail = "ann@x.org"
    /\ pend.userData # <<>>
    /\ pend.userData[Len(pend.userData)].value[1].displayName = "Ann"
    /\ pend.userData[Len(pend.userData)].value[1].score = 80
    /\ pend.userData[Len(pend.userData)].value[1].totalCardboard = 1

\* C11: in a run without failing writes, once checkLoginStatus has run and
\* every queued state update has been applied, the profile stored under the
\* user-data key is the in-memory userData.
C11_DisplayedIsPersisted ==
    (~env.faultyStorage /\ mounted /\ pend = NoUpdates) => ls.userData = <<userData>>

\* C12: the category the dialog was opened from has no influence: whatever the
\* hint of the resumed call, the record written has the classifier's category
\* and that category's points, the history is that record before the stored
\* one, and the queued profile update is the one of the classifier's category.
C12_HintHasNoInfluence ==
    [][Resumed("result") =>
          LET category == lastOp'.arg[1].category
              points == IF category \in WasteCategory THEN WASTE_POINTS[category]
                        ELSE WASTE_POINTS.other
              record(img) == [id |-> now, imageDataUri |-> img, category |-> category,
                              confidence |-> lastOp'.arg[1].confidence,
                              timestamp |-> now, points |-> points]
          IN  /\ lastOp'.arg[1].hint \in Hints
              /\ pend'.userData = Append(pend.userData, Updater(category, points))
              /\ \E img \in Images :
                    /\ \/ ls'.history = Slice(<<record(img)>> \o ls.history,
                                              HISTORY_CAPACITY)
                       \/ env.faultyStorage /\ ls'.history = ls.history
                    /\ pend'.recentClassifications =
                          <<Slice(<<record(img)>> \o ls.history,
                                  MAX_HISTORY_DISPLAY_ITEMS)>>]_vars

\* A call made from the glass tile was answered with another category, and the
\* record has the classifier's.
C12_Witness ==
    /\ lastOp.op = "handleClassify.resumed"
    /\ lastOp.ret = "result"
    /\ lastOp.arg[1].hint = "glass"
    /\ lastOp.arg[1].category = "metal"
    /\ ls.history # <<>>
    /\ ls.history[1].category = "metal"
    /\ ls.history[1].points = 40
    /\ pend.userData # <<>>
    /\ pend.userData[Len(pend.userData)] = Updater("metal", 40)

InSession == env.oneSession \/ env.authWrites = MaxAuthWrites

\* C14: within a session the in-memory score never decreases, and it changes
\* only in the render that applies the update of a successful classification.
C14_ScoreMonotone ==
    [][InSession =>
          /\ userData'.score >= userData.score
          /\ userData'.score # userData.score =>
                /\ Rendered
                /\ \E n \in 1..Len(pend.userData) : pend.userData[n].kind = "update"]_vars

\* The position of a level in the order of the tiers.
Tier(level) == CHOOSE i \in 1..Len(LEVELS) : LEVELS[i] = level

\* Scores around the thresholds of the tiers.
LevelSamples == {0 - 1, 0, 480, 499, 500, 510, 1499, 1500, 1501, 2999, 3000, 3001}

\* C15: getCurrentLevel returns the highest of Bronze 0, Silver 500, Gold 1500,
\* Diamond 3000 whose minScore does not exceed the score, Bronze for a score
\* below every threshold; the tier is monotone in the score; 480 is Bronze and
\* 510 is Silver.
C15_LevelOfScore ==
    LET score == userData.score
        level == getCurrentLevel(score)
        reached == {name \in {"Bronze", "Silver", "Gold", "Diamond"} :
                      \/ name = "Bronze" /\ score >= 0
                      \/ name = "Silver" /\ score >= 500
                      \/ name = "Gold" /\ score >= 1500
                      \/ name = "Diamond" /\ score >= 3000}
    IN  /\ level.name = IF "Diamond" \in reached THEN "Diamond"
                        ELSE IF "Gold" \in reached THEN "Gold"
                        ELSE IF "Silver" \in reached THEN "Silver"
                        ELSE "Bronze"
        /\ \A other \in {score - 1, score + 1} \cup LevelSamples :
              /\ other <= score => Tier(getCurrentLevel(other)) <= Tier(level)
              /\ score <= other => Tier(level) <= Tier(getCurrentLevel(other))
        /\ score = 480 => level.name = "Bronze"
        /\ score = 510 => level.name = "Silver"
        /\ lastOp.op = "renderLevelCard" => lastOp.ret = level.name

C15_Witness ==
    /\ lastOp.op = "renderLevelCard"
    /\ userData.score = 510
    /\ lastOp.ret = "Silver"

\* C16: the progress percentage of the score's tier lies in [0,100]; it is 100
\* for Diamond, whose target is unbounded, and otherwise
\* 100*(score - minScore)/(targetForNext - minScore) clamped to [0,100], also
\* for a score below minScore; it is 16 for score 80 and 1 for score 510.
C16_ProgressInRange ==
    LET score == userData.score
        level == getCurrentLevel(score)
        progress == scorePercentage(score)
        range == level.targetForNext - level.minScore
        raw == 100 * (score - level.minScore)
        clamped == IF raw < 0 THEN 0 ELSE IF raw > 100 * range THEN 100 * range ELSE raw
    IN  /\ progress.den > 0
        /\ 0 <= progress.num
        /\ progress.num <= 100 * progress.den
        /\ IF level.name = "Diamond"
           THEN progress.num = 100 * progress.den
           ELSE progress.num * range = clamped * progress.den
        /\ score = 80 => progress.num = 16 * progress.den
        /\ score = 510 => progress.num = 1 * progress.den
        /\ lastOp.op = "renderLevelCard" => lastOp.arg[1] = progress

\* The card rendered for a score below the minScore of its tier.
C16_Witness ==
    /\ lastOp.op = "renderLevelCard"
    /\ userData.score = 0 - 5
    /\ lastOp.ret = "Bronze"
    /\ lastOp.arg[1].num = 0

\* C17: a resolved category without an entry in the point table is awarded the
\* 10 points of "other": the record written and the queued update carry 10
\* points, and the render that applies the update adds 10 to the score and 1
\* to itemsClassified and leaves every per-category counter as it was.
C17_UnknownCategoryScoresAsOther ==
    [][/\ (Resumed("result") /\ lastOp'.arg[1].category \notin WasteCategory)
            => /\ pend'.userData =
                     Append(pend.userData, Updater(lastOp'.arg[1].category, 10))
               /\ Len(ls'.history) = IF Len(ls.history) < 50 THEN Len(ls.history) + 1 ELSE 50
               /\ ls'.history[1].category = lastOp'.arg[1].category
               /\ ls'.history[1].points = 10
       /\ Rendered =>
             \A n \in 1..Len(pend.userData) :
                (pend.userData[n].kind = "update"
                    /\ pend.userData[n].category \notin WasteCategory)
                   => LET prev == valueAfter(pend.userData, n - 1, userData)
                          next == IF n = Len(pend.userData) THEN userData'
                                  ELSE valueAfter(pend.userData, n, userData)
                      IN  /\ next.score = prev.score + 10
                          /\ next.itemsClassified = prev.itemsClassified + 1
                          /\ \A key \in CounterKeys : next[key] = prev[key]]_vars

\* "battery" scored on top of an "ewaste".
C17_Witness ==
    /\ lastOp = Op("render", "", <<Updater(UnknownCategory, 10)>>)
    /\ userData.score = 110
    /\ userData.itemsClassified = 2
    /\ userData.totalEwaste = 1
    /\ userData.totalOther = 0
    /\ ls.history # <<>>
    /\ ls.history[1].category = UnknownCategory
    /\ ls.history[1].points = 10

\* Both tabs are mounted, neither has processed a storage event, and every
\* classification started has been applied.
TabsSettledUnnotified ==
    /\ mounted
    /\ otherTab.mounted
    /\ env.checks = MaxTabChecks
    /\ env.otherChecks = MaxTabChecks
    /\ inFlight = <<>>
    /\ otherTab.inFlight = <<>>
    /\ pend.userData = <<>>
    /\ otherTab.pend.userData = <<>>

\* The index of the last updater among the queued updates (0: none).
LastUpdater(updates) ==
    IF \E n \in 1..Len(updates) : updates[n].kind = "update"
    THEN CHOOSE n \in 1..Len(updates) :
            /\ updates[n].kind = "update"
            /\ \A k \in (n + 1)..Len(updates) : updates[k].kind # "update"
    ELSE 0

\* C18: with two tabs on one local storage, profile writes are last-write-wins.
\* A render that applies a classification stores the profile computed from the
\* tab's own in-memory profile, whatever the other tab stored; each resumed
\* classification prepends its record to the history it reads from the
\* storage; so, when neither tab has processed a storage event, the stored
\* profile is the in-memory profile of one of the tabs and the stored history
\* holds the records of both.
C18_LastWriteWins ==
    /\ [](TabsSettledUnnotified =>
             /\ ls.userData \in {<<userData>>, <<otherTab.userData>>}
             /\ Len(ls.history) = now - 1)
    /\ [][/\ (lastOp'.op = "otherTab.render" /\ LastUpdater(otherTab.pend.userData) > 0)
               => ls'.userData =
                     <<valueAfter(otherTab.pend.userData,
                                  LastUpdater(otherTab.pend.userData), otherTab.userData)>>
          /\ (Rendered /\ ~env.faultyStorage /\ LastUpdater(pend.userData) > 0)
               => ls'.userData =
                     <<valueAfter(pend.userData, LastUpdater(pend.userData), userData)>>
          /\ (lastOp'.op = "otherTab.handleClassify.resumed"
                \/ (Resumed("result") /\ ~env.faultyStorage))
               => /\ ls'.history # <<>>
                  /\ ls'.history[1].id = now
                  /\ Tail(ls'.history) = Slice(ls.history, HISTORY_CAPACITY - 1)]_vars

\* Each tab has classified one cardboard; the second tab wrote last; the stored
\* profile has one increment, the stored history two records.
C18_Witness ==
    /\ TabsSettledUnnotified
    /\ lastOp.op = "otherTab.render"
    /\ userData.itemsClassified = 1
    /\ otherTab.userData.itemsClassified = 1
    /\ Len(ls.history) = 2
    /\ ls.userData # <<>>
    /\ ls.userData[1].itemsClassified = 1
    /\ ls.userData[1].score = 80

\* C19: after the callback for any snapshot of /bin1 (fill_level_history an
\* array, missing, or not an array) isLoadingBin1History is false, and for an
\* array bin1HistoryError is null.
C19_SnapshotEndsLoading ==
    [][lastOp'.op = "bin1.onValue" =>
          /\ ~bin1'.isLoadingBin1History
          /\ lastOp'.arg[1].node = "array" => bin1'.bin1HistoryError = null]_vars

\* C20: in every state in which the reconciled login state isLoggedIn is false
\* (the component is mounted and no update is queued), the in-memory profile
\* and the stored profile have score 0 and itemsClassified 0, and so a
\* classification that resolves after the logout was reconciled adds nothing.
C20_GuestHasNoProgress ==
    (~env.faultyStorage /\ mounted /\ ~isLoggedIn /\ pend = NoUpdates) =>
        /\ userData.score = 0 /\ userData.itemsClassified = 0
        /\ Stored.score = 0 /\ Stored.itemsClassified = 0

\* C21: after the home view is torn down no 'storage' and no 'authChange'
\* event runs checkLoginStatus, so the unmounted view queues no state update
\* and writes nothing to local storage.
C21_NoCheckAfterTeardown ==
    [][(~mounted /\ ~mounted') =>
          /\ lastOp'.op # "checkLoginStatus"
          /\ pend' = pend
          /\ ls'.userData = ls.userData]_vars

C23_TimersCancelledOnTeardown ==
    /\ [](~dashboard.mounted => dashboard.intervals = {})
    /\ [][(~dashboard.mounted /\ ~dashboard'.mounted) =>
             /\ dashboard'.currentTime = dashboard.currentTime
             /\ dashboard'.realTimeEWasteData = dashboard.realTimeEWasteData]_vars

C23_Witness ==
    /\ ~dashboard.mounted
    /\ lastOp.op = "secondPasses"
    /\ now = 7
    /\ dashboard.currentTime = 4
    /\ Len(dashboard.realTimeEWasteData) = 6

\* C24: a record is never modified after it is created and leaves the stored
\* history only by capacity eviction: across every step, a record of the stored
\* history is still there with identical fields, or it was the last and oldest
\* record of a full history; and the points of every stored record are the
\* value looked up for its category.
C24_RecordsImmutable ==
    /\ [](\A i \in 1..Len(ls.history) :
             ls.history[i].points = pointsEarned(ls.history[i].category))
    /\ [][\A i \in 1..Len(ls.history) :
             \/ \E j \in 1..Len(ls'.history) : ls'.history[j] = ls.history[i]
             \/ /\ Len(ls.history) = HISTORY_CAPACITY
                /\ i = Len(ls.history)
                /\ \A k \in 1..Len(ls.history) :
                      ls.history[k].timestamp >= ls.history[i].timestamp]_vars

\* After the 52nd classification: two records were evicted, the others are kept.
C24_Witness ==
    /\ now = 53
    /\ lastOp.op = "handleClassify.resumed"
    /\ Len(ls.history) = HISTORY_CAPACITY
    /\ ls.history[1].id = 52
    /\ ls.history[HISTORY_CAPACITY].id = 3
    /\ ls.history[HISTORY_CAPACITY].points = 80

\* C25: recentClassifications mirrors the head of the stored history: the value
\* set by every successful classification and by every checkLoginStatus run has
\* at most 5 entries and is the first min(5, length) records of the stored
\* history, most recent first.
C25_RecentMirrorsHistory ==
    [][(lastOp'.op = "checkLoginStatus"
          \/ (lastOp'.op = "handleClassify.resumed" /\ lastOp'.ret = "result")) =>
          /\ Len(pend'.recentClassifications[1]) <= MAX_HISTORY_DISPLAY_ITEMS
          /\ pend'.recentClassifications = <<Slice(ls'.history, MAX_HISTORY_DISPLAY_ITEMS)>>]_vars

\* C26: no run of checkLoginStatus modifies the stored history, the runs that
\* reset the profile to the guest default or re-initialise it for another
\* identity included: the records of the previous identity remain and are
\* mirrored into recentClassifications.
C26_ReconcileKeepsHistory ==
    [][lastOp'.op = "checkLoginStatus" =>
          /\ ls'.history = ls.history
          /\ pend'.recentClassifications =
                <<Slice(sortedHistory(ls.history), MAX_HISTORY_DISPLAY_ITEMS)>>]_vars

\* bob@x.org logs in after ann@x.org classified an item: the profile starts
\* from zero, the record stays.
C26_Witness ==
    /\ lastOp.op = "checkLoginStatus"
    /\ lastOp.arg[1].email = "ann@x.org"
    /\ lastOp.arg[1].score = 80
    /\ ls.userData[1].email = "bob@x.org"
    /\ ls.userData[1].score = 0
    /\ Len(ls.history) = 1
    /\ pend.recentClassifications = <<ls.history>>

\* The position, from 1, of the document with the visitor's email among the
\* documents the leaderboard query returned; 0 when it is not among them.
PositionInTop ==
    LET top == leaderboardQuery(leaderboard.users)
        at == {i \in 1..Len(top) : top[i].data.email = ls.userEmail}
    IN  IF at = {} THEN 0 ELSE CHOOSE i \in at : TRUE

\* C27: when the page is rendered with both queries answered for a logged-in
\* visitor, the rank shown is the position of the visitor's document among
\* the documents the leaderboard query returned, and "N/A (Not in Top 10)"
\* only when the document is not among them.
C27_RankOfCurrentUser ==
    (lastOp.op = "renderRank" /\ leaderboard.error = null /\ Truthy(ls.userEmail)) =>
        lastOp.ret = IF PositionInTop > 0 THEN ToString(PositionInTop)
                     ELSE "N/A (Not in Top 10)"

\* co2Managed, kept in tenths of a kg, is the score times 0.1 at one decimal.
Co2MatchesScore(profile) == profile.co2Managed = profile.score

\* C28: in every reachable state co2Managed equals score * 0.1 at one decimal,
\* for the in-memory profile, for every profile queued for it, for the stored
\* profile and for the second tab's; and every point value is a multiple of 5.
C28_Co2IsTenthOfScore ==
    /\ \A category \in DOMAIN WASTE_POINTS : WASTE_POINTS[category] % 5 = 0
    /\ Co2MatchesScore(userData)
    /\ Co2MatchesScore(Stored)
    /\ Co2MatchesScore(otherTab.userData)
    /\ \A n \in 1..Len(pend.userData) :
          pend.userData[n].kind = "set" => Co2MatchesScore(pend.userData[n].value[1])

\* Two classifications of 55 and 45 points: 10.0 kg.
C28_Witness ==
    /\ lastOp.op = "render"
    /\ userData.itemsClassified = 2
    /\ userData.totalPlasticHdpe = 1
    /\ userData.totalPlasticPp = 1
    /\ userData.score = 100
    /\ userData.co2Managed = 100
    /\ ls.userData = <<userData>>

\* The sum of the fourteen per-category counters of a profile.
RECURSIVE SumOver(_, _)
SumOver(profile, keys) ==
    IF keys = {} THEN 0
    ELSE LET key == CHOOSE k \in keys : TRUE
         IN  profile[key] + SumOver(profile, keys \ {key})

CountersWithinItems(profile) ==
    /\ \A key \in CounterKeys : profile[key] >= 0
    /\ SumOver(profile, CounterKeys) <= profile.itemsClassified

\* C29: in every reachable state every per-category counter is non-negative
\* and the fourteen counters sum to at most itemsClassified, for the in-memory
\* profile, for every profile queued for it, for the stored profile and for
\* the second tab's.
C29_CountersWithinItems ==
    /\ Cardinality(CounterKeys) = 14
    /\ CountersWithinItems(userData)
    /\ CountersWithinItems(Stored)
    /\ CountersWithinItems(otherTab.userData)
    /\ \A n \in 1..Len(pend.userData) :
          pend.userData[n].kind = "set" => CountersWithinItems(pend.userData[n].value[1])

\* An item of 'plastic', which has no counter, and an item of 'biowaste': two
\* items, one counted.
C29_Witness ==
    /\ lastOp.op = "render"
    /\ userData.itemsClassified = 2
    /\ userData.score = 110
    /\ userData.totalBiowaste = 1
    /\ userData.totalPlastic = 0
    /\ SumOver(userData, CounterKeys) = 1
    /\ ls.userData = <<userData>>

\* A run of checkLoginStatus, in either tab, and the profile it passed to
\* setUserData.
CheckOps == {"checkLoginStatus", "otherTab.checkLoginStatus"}
LastSet ==
    IF lastOp.op = "checkLoginStatus"
    THEN pend.userData[Len(pend.userData)].value[1]
    ELSE otherTab.pend.userData[Len(otherTab.pend.userData)].value[1]

\* C30: checkLoginStatus is idempotent.  When a run follows a run with nothing
\* in between, in the same tab or in the other one, and no write fails, the
\* second run finds the stored profile equal to the one it computes, so it
\* writes nothing, and it sets the same in-memory profile as the first: a
\* reconcile that another tab's write triggers triggers none in return.
C30_ReconcileIdempotent ==
    [][(~env.faultyStorage /\ lastOp.op \in CheckOps /\ lastOp'.op \in CheckOps) =>
          /\ ls.userData = <<LastSet'>>
          /\ ls' = ls
          /\ LastSet' = LastSet]_vars

\* The first tab mounted and wrote the re-initialised profile; the second
\* tab's run followed at once.
C30_Witness ==
    /\ lastOp.op = "otherTab.checkLoginStatus"
    /\ mounted
    /\ env \in TwoTabRuns
    /\ ~isUploadModalOpen
    /\ Len(pend.userData) = 1
    /\ Len(otherTab.pend.userData) = 1
    /\ otherTab.pend.userData[1] = pend.userData[1]
    /\ ls.userData = <<pend.userData[1].value[1]>>
    /\ ls.userData[1].id = "ann@x.org"

====
